---- MODULE Spec2Model ----
(***************************************************************************)
(* Verification model of the media-converting pipeline:                    *)
(*   models.py          MediaFile.classify                                 *)
(*   basic_convert.py   run_basic_conversion                               *)
(*   convert.py         convert_batch / convert_media_file                 *)
(*   Gemini.py          convert_to_mp4                                     *)
(*   ConvertandMove.py  convert_to_mp4                                     *)
(*   mkv_modifier.py    remove_subtitle_tracks                             *)
(*   file_handler.py    move_converted_files                               *)
(*   robocopy.py        move_converted_file                                *)
(***************************************************************************)
EXTENDS Integers, Sequences, FiniteSets, TLC

VARIABLES
    \* --- MediaFile fields read by classify(), and its last result ---
    audio_codec, audio_channels, video_codec, burned_subtitle, classify_result,
    \* --- the conversion pipeline ---
    fs,            \* the file system: path -> content of the files that exist
    media_files,   \* the batch: a sequence of MediaFile records
    settings,      \* ConversionSettings
    app_config,    \* module-level configuration of the stand-alone scripts
    platform,      \* sys.platform
    trace,         \* what the last call did: encoder runs, renames, unlinks
    ret,           \* the last call: [fn, value]
    runs,          \* number of calls made so far
    \* --- the transfer engine ---
    dirs,            \* the directories that exist
    move_log_file,   \* ./move_log.json on disk: [valid, data]
    transfer_config, \* destination_base, source_root_folders, dry_run
    transfers,       \* number of move_converted_files calls made so far
    \* --- the dashboard ---
    task,             \* "idle", the name of the running task, or "failed"
    status_bar,       \* the message the status bar shows
    cancel_requested, \* history: Cancel was pressed during the current task
    burn_combo_items, \* per list item: the number of tracks its burn combo offers
    \* --- the worker pool of Gemini.convert_all ---
    pool,             \* the futures, in submission order: [input, pc, result, enc]
    collected,        \* the futures whose result the main thread has taken
    conversion_log,   \* the module-level dict: path -> "converted" / "error" / ...
    log_file_json,    \* conversion_log.json on disk: [valid, data]
    log_lock,         \* conversion_log_lock: "free" or the thread that holds it
    main_pc           \* where the main thread is in convert_all

classifyVars == <<audio_codec, audio_channels, video_codec, burned_subtitle, classify_result>>
convertVars == <<fs, media_files, settings, app_config, platform, trace, ret, runs>>

transferVars == <<dirs, move_log_file, transfer_config, transfers>>

dashVars == <<task, status_bar, cancel_requested, burn_combo_items>>

poolVars == <<pool, collected, conversion_log, log_file_json, log_lock, main_pc>>

vars == <<classifyVars, convertVars, transferVars, dashVars, poolVars>>

(***************************************************************************)
(* Python values.  Optional[T] is a sequence of length 0 (None) or 1.      *)
(* A str is a sequence of one-character strings.                           *)
(***************************************************************************)
None == <<>>
Some(x) == <<x>>
IsNone(o) == o = <<>>
Val(o) == o[1]

\* bool(o and s): an Optional[str] is truthy when it is not None and not ""
TruthyStr(o) == (~IsNone(o)) /\ Len(Val(o)) > 0

\* str.lower() on one character
LowerChar(c) ==
    CASE c = "A" -> "a"
      [] c = "C" -> "c"
      [] c = "D" -> "d"
      [] c = "E" -> "e"
      [] c = "H" -> "h"
      [] c = "S" -> "s"
      [] c = "T" -> "t"
      [] c = "V" -> "v"
      [] OTHER -> c

\* str.lower()
Lower(s) == [i \in 1..Len(s) |-> LowerChar(s[i])]

\* Python's  needle in hay  for two strings (substring test)
StrContains(hay, needle) ==
    \E i \in 0..(Len(hay) - Len(needle)) :
        SubSeq(hay, i + 1, i + Len(needle)) = needle

S_aac == <<"a","a","c">>
S_ac3 == <<"a","c","3">>
S_eac3 == <<"e","a","c","3">>
S_h264 == <<"h","2","6","4">>
S_hevc == <<"h","e","v","c">>

\* models.py:89
compatible_audio == {S_aac, S_ac3, S_eac3}
\* models.py:91
compatible_video == {S_h264, S_hevc}

\* A mutant of classify that forgets the burn-in rule.
classify_NoBurnRule(burned, acodec, vcodec) ==
    IF TruthyStr(acodec) /\ Lower(Val(acodec)) \notin compatible_audio THEN "convert"
    ELSE IF TruthyStr(vcodec)
            /\ ~(\E c \in compatible_video : StrContains(Lower(Val(vcodec)), c)) THEN "convert"
    ELSE "remux"

\* A mutant of classify whose audio list lacks eac3.
classify_NoEac3(burned, acodec, vcodec) ==
    IF ~IsNone(burned) THEN "convert"
    ELSE IF TruthyStr(acodec) /\ Lower(Val(acodec)) \notin {S_aac, S_ac3} THEN "convert"
    ELSE IF TruthyStr(vcodec)
            /\ ~(\E c \in compatible_video : StrContains(Lower(Val(vcodec)), c)) THEN "convert"
    ELSE "remux"

\* MediaFile.classify (models.py:86-93).  A SubtitleTrack instance is always
\* truthy, so  if self.burned_subtitle  tests for not-None.
classify(burned, acodec, vcodec) ==
    IF ~IsNone(burned) THEN "convert"
    ELSE IF TruthyStr(acodec) /\ Lower(Val(acodec)) \notin compatible_audio THEN "convert"
    ELSE IF TruthyStr(vcodec)
            /\ ~(\E c \in compatible_video : StrContains(Lower(Val(vcodec)), c)) THEN "convert"
    ELSE "remux"

(***************************************************************************)
(* Inputs of the classifier                                                *)
(***************************************************************************)
MaxChannels == 8

AudioCodecInputs ==
    { None, Some(S_aac), Some(S_ac3), Some(S_eac3),
      Some(<<"A","A","C">>), Some(<<"d","t","s">>), Some(<<"t","r","u","e","h","d">>) }

VideoCodecInputs ==
    { None, Some(S_h264), Some(S_hevc), Some(<<"H","E","V","C">>),
      Some(<<"m","p","e","g","4">>), Some(<<"v","p","9">>) }

ChannelInputs == {0, 2, 6, MaxChannels}

\* A SubtitleTrack as scan_file builds it (subtitlesmkv.py:84-92)
BurnTrackInputs ==
    { [index |-> 2, ffmpeg_index |-> 0, language |-> "eng", is_forced |-> TRUE, action |-> "burn"],
      [index |-> 3, ffmpeg_index |-> 1, language |-> "eng", is_forced |-> FALSE, action |-> "burn"] }

BurnedInputs == {None} \cup { Some(t) : t \in BurnTrackInputs }

InitClassify ==
    /\ audio_codec \in AudioCodecInputs
    /\ audio_channels \in ChannelInputs
    /\ video_codec \in VideoCodecInputs
    /\ burned_subtitle \in BurnedInputs
    /\ classify_result = "unset"

\* a call of media.classify()
Classify ==
    /\ classify_result' = classify(burned_subtitle, audio_codec, video_codec)
    /\ UNCHANGED <<audio_codec, audio_channels, video_codec, burned_subtitle>>
    /\ UNCHANGED <<convertVars, transferVars, dashVars, poolVars>>

(***************************************************************************)
(* Paths and the file system.                                              *)
(* A file name is a sequence of tokens whose last token is the suffix      *)
(* (".mkv", ".mp4"); a path is [dir, name], dir being the sequence of the   *)
(* folder's components.  fs maps the paths that exist to [kind, from]:     *)
(* what the file holds and which input it was made from.                   *)
(***************************************************************************)
Path(d, n) == [dir |-> d, name |-> n]

\* Path.suffix / Path.stem of a name
IsSuffixTok(t) == t \in {".mkv", ".mp4", ".nfo", ".srt", ".temp"}
HasSuffix(n) == Len(n) > 1 /\ IsSuffixTok(n[Len(n)])
Suffix(n) == IF HasSuffix(n) THEN <<n[Len(n)]>> ELSE <<>>
Stem(n) == IF HasSuffix(n) THEN SubSeq(n, 1, Len(n) - 1) ELSE n

\* Path.with_suffix(s): the last suffix is replaced by s
with_suffix(p, s) == Path(p.dir, Stem(p.name) \o s)
\* Path.with_name(n)
with_name(p, n) == Path(p.dir, n)

Exists(f, p) == p \in DOMAIN f
\* Path.unlink(missing_ok=True) / unlink of a file known to exist
Unlink(f, p) == [q \in (DOMAIN f) \ {p} |-> f[q]]
WriteFile(f, p, c) == (p :> c) @@ f
\* st_size > 0
NonEmpty(c) == c.kind # "empty"

\* Path.rename(dst): FileNotFoundError without the source; on win32
\* FileExistsError when dst exists; elsewhere dst is replaced.  io_fail is
\* any other OSError the call raises.
Rename(f, src, dst, io_fail) ==
    IF ~Exists(f, src) \/ io_fail THEN [ok |-> FALSE, fs |-> f]
    ELSE IF src = dst THEN [ok |-> TRUE, fs |-> f]
    ELSE IF Exists(f, dst) /\ platform = "win32" THEN [ok |-> FALSE, fs |-> f]
    ELSE [ok |-> TRUE, fs |-> WriteFile(Unlink(f, src), dst, f[src])]

\* shutil.move(src, dst) of a file: os.rename, and on OSError copy + unlink,
\* so an existing dst is replaced on every platform.
ShutilMove(f, src, dst, io_fail) ==
    IF ~Exists(f, src) \/ io_fail THEN [ok |-> FALSE, fs |-> f]
    ELSE IF src = dst THEN [ok |-> TRUE, fs |-> f]
    ELSE [ok |-> TRUE, fs |-> WriteFile(Unlink(f, src), dst, f[src])]

(***************************************************************************)
(* The encoder process  ffmpeg -y -i input ... output                      *)
(*   notfound      the executable is missing (FileNotFoundError)           *)
(*   fail          non-zero exit before the output was opened              *)
(*   fail_partial  non-zero exit, a truncated output is left behind        *)
(*   ok            exit 0, complete output                                 *)
(*   ok_empty      exit 0, but the output holds no data                    *)
(***************************************************************************)
EncOutcomes == {"notfound", "fail", "fail_partial", "ok", "ok_empty"}

Ffmpeg(f, input, output, outcome) ==
    IF outcome = "notfound" THEN [ok |-> FALSE, fs |-> f]
    ELSE IF ~Exists(f, input) \/ input = output \/ outcome = "fail"
        THEN [ok |-> FALSE, fs |-> f]
    ELSE IF outcome = "fail_partial"
        THEN [ok |-> FALSE, fs |-> WriteFile(f, output, [kind |-> "partial", from |-> input])]
    ELSE IF outcome = "ok_empty"
        THEN [ok |-> TRUE, fs |-> WriteFile(f, output, [kind |-> "empty", from |-> input])]
    ELSE [ok |-> TRUE, fs |-> WriteFile(f, output, [kind |-> "enc", from |-> input])]

\* One entry of the call trace.  i: index of the file in the batch (0 for a
\* stand-alone call); flag: begin -> the final output existed already,
\* ffmpeg -> exit code 0, rename/move -> the moved file was non-empty.
Ev(op, i, src, dst, flag) == [op |-> op, i |-> i, src |-> src, dst |-> dst, flag |-> flag]

(***************************************************************************)
(* MediaFile (models.py:27-59) and ConversionSettings (models.py:148-156)  *)
(***************************************************************************)
\* MediaFile.__post_init__: title = stem, output_filename = title + ".mp4"
MediaFile(source_path, burned) ==
    [ source_path |-> source_path,
      title |-> Stem(source_path.name),
      output_filename |-> Stem(source_path.name) \o <<".mp4">>,
      destination_path |-> None,
      subtitle_tracks |-> IF IsNone(burned) THEN <<>> ELSE <<Val(burned)>>,
      burned_subtitle |-> IF IsNone(burned) THEN None ELSE Some(1),
      status |-> "Ready",
      error_message |-> None,
      needs_conversion |-> TRUE,
      audio_codec |-> None,
      audio_channels |-> 0,
      video_codec |-> None,
      use_basic_conversion |-> FALSE ]

\* characters re.sub(invalid_chars, '', ...) removes (models.py:81)
InvalidChars == {":", "?", "*", "|"}

\* MediaFile.generate_filename_from_template (models.py:64-84); a template is
\* a sequence of tokens, "{title}" and "{width}" being placeholders.
generate_filename_from_template(m, template) ==
    IF template = <<>> THEN m.title \o <<".mp4">>
    ELSE LET Subst(i) == IF template[i] = "{title}" THEN (IF m.title # <<>> THEN m.title ELSE Stem(m.source_path.name))
                         ELSE IF template[i] = "{width}" THEN <<"0">>
                         ELSE <<template[i]>>
             Expand[i \in 0..Len(template)] ==
                 IF i = 0 THEN <<>> ELSE Expand[i - 1] \o Subst(i)
             cleaned == SelectSeq(Expand[Len(template)], LAMBDA t : t \notin InvalidChars)
         IN cleaned \o <<".mp4">>

(***************************************************************************)
(* basic_convert.py                                                        *)
(***************************************************************************)
TempSuffix == <<".temp", ".mp4">>

\* the finally block (basic_convert.py:83-85)
BasicFinally(r, temp, i) ==
    IF Exists(r.fs, temp)
    THEN [r EXCEPT !.fs = Unlink(r.fs, temp),
                   !.tr = r.tr \o <<Ev("unlink", i, temp, temp, TRUE)>>]
    ELSE r

\* the except block (basic_convert.py:78-82)
BasicExcept(r) ==
    [r EXCEPT !.m.status = "Error (Basic)", !.m.error_message = Some("Basic remux failed")]

\* run_basic_conversion(media, settings) on the i-th file of the batch
\* (basic_convert.py:19-85).  enc: what the encoder does; io_fail: the rename
\* raises an OSError.
run_basic_conversion(m, f, i, enc, io_fail) ==
    LET out_name == generate_filename_from_template(m, settings.filename_template)
        final_output_path == with_name(m.source_path, out_name)
        temp_output_path == with_suffix(m.source_path, TempSuffix)
        m1 == [m EXCEPT !.status = "Remuxing", !.output_filename = out_name,
                        !.destination_path = Some(final_output_path)]
        r1 == [fs |-> Unlink(f, temp_output_path), m |-> m1,
               tr |-> <<Ev("begin", i, m.source_path, final_output_path,
                           Exists(f, final_output_path))>>]
    IN IF settings.dry_run
       THEN BasicFinally([r1 EXCEPT !.m.status = "Dry Run (Basic)"], temp_output_path, i)
       ELSE LET run == Ffmpeg(r1.fs, m.source_path, temp_output_path, enc)
                r2 == [r1 EXCEPT !.fs = run.fs,
                                 !.tr = r1.tr \o <<Ev("ffmpeg", i, m.source_path, temp_output_path, run.ok)>>]
            IN IF ~run.ok THEN BasicFinally(BasicExcept(r2), temp_output_path, i)
               ELSE LET rn == Rename(r2.fs, temp_output_path, final_output_path, io_fail)
                    IN IF ~rn.ok THEN BasicFinally(BasicExcept(r2), temp_output_path, i)
                       ELSE LET r3 == [r2 EXCEPT
                                         !.fs = rn.fs,
                                         !.tr = r2.tr \o <<Ev("rename", i, temp_output_path, final_output_path,
                                                              NonEmpty(r2.fs[temp_output_path]))>>,
                                         !.m.status = "Converted (Basic)",
                                         !.m.burned_subtitle = None,
                                         !.m.subtitle_tracks =
                                             [k \in 1..Len(m.subtitle_tracks) |->
                                                 [m.subtitle_tracks[k] EXCEPT !.action = "ignore"]]]
                            IN BasicFinally(r3, temp_output_path, i)

\* run_batch_basic_conversion (basic_convert.py:87-92): the files in order,
\* each on the file system the previous one left.
RECURSIVE BatchBasic(_, _, _, _, _)
BatchBasic(ms, f, i, encs, ios) ==
    IF i > Len(ms) THEN [fs |-> f, ms |-> ms, tr |-> <<>>]
    ELSE LET r == run_basic_conversion(ms[i], f, i, encs[i], ios[i])
             rest == BatchBasic([ms EXCEPT ![i] = r.m], r.fs, i + 1, encs, ios)
         IN [rest EXCEPT !.tr = r.tr \o rest.tr]

(***************************************************************************)
(* convert.py                                                              *)
(***************************************************************************)
\* _should_skip_conversion (convert.py:35-55)
should_skip_conversion(m) ==
    IF ~m.needs_conversion THEN TRUE
    ELSE Suffix(m.source_path.name) = <<".mp4">> /\ IsNone(m.burned_subtitle)

\* the output argument of _build_ffmpeg_command (convert.py:170)
build_ffmpeg_command_output(m) == Path(settings.output_directory, m.output_filename)

\* convert_media_file(media, settings) on the i-th file (convert.py:57-107)
convert_media_file(m, f, i, enc) ==
    LET output_path == Path(settings.output_directory, m.output_filename)
        m1 == [m EXCEPT !.status = "Converting", !.destination_path = Some(output_path)]
        tr1 == <<Ev("begin", i, m.source_path, output_path, Exists(f, output_path))>>
        cmd_out == build_ffmpeg_command_output(m)
    IN IF settings.dry_run
       THEN [fs |-> f, m |-> [m1 EXCEPT !.status = "Dry Run"], tr |-> tr1]
       ELSE LET run == Ffmpeg(f, m.source_path, cmd_out, enc)
                tr2 == tr1 \o <<Ev("ffmpeg", i, m.source_path, cmd_out, run.ok)>>
            IN IF run.ok
               THEN [fs |-> run.fs, m |-> [m1 EXCEPT !.status = "Converted"], tr |-> tr2]
               ELSE [fs |-> run.fs,
                     m |-> [m1 EXCEPT !.status = "Error",
                                      !.error_message =
                                          Some(IF enc = "notfound" THEN "ffmpeg command not found"
                                               ELSE "FFmpeg failed with exit code")],
                     tr |-> tr2]

\* convert_batch (convert.py:12-33)
RECURSIVE BatchConvert(_, _, _, _)
BatchConvert(ms, f, i, encs) ==
    IF i > Len(ms) THEN [fs |-> f, ms |-> ms, tr |-> <<>>]
    ELSE IF should_skip_conversion(ms[i])
         THEN BatchConvert([ms EXCEPT ![i].status = "Skipped"], f, i + 1, encs)
    ELSE LET r == convert_media_file(ms[i], f, i, encs[i])
             rest == BatchConvert([ms EXCEPT ![i] = r.m], r.fs, i + 1, encs)
         IN [rest EXCEPT !.tr = r.tr \o rest.tr]

(***************************************************************************)
(* Gemini.py                                                               *)
(***************************************************************************)
\* delete_sidecar_files (Gemini.py:592-624): the original and its .nfo and
\* .srt side files are unlinked when they exist; an OSError of an unlink is
\* logged and swallowed.
delete_sidecar_files(r, input_file, unlink_fail) ==
    IF app_config.DRY_RUN \/ unlink_fail THEN r
    ELSE LET victims == {input_file, with_suffix(input_file, <<".nfo">>),
                         with_suffix(input_file, <<".srt">>)} \cap DOMAIN r.fs
         IN [r EXCEPT !.fs = [q \in (DOMAIN r.fs) \ victims |-> r.fs[q]],
                      !.tr = r.tr \o (IF input_file \in victims
                                      THEN <<Ev("unlink_source", 0, input_file, input_file, TRUE)>>
                                      ELSE <<>>)]

\* the finally block (Gemini.py:582-589): an OSError of the unlink is logged
\* and swallowed.
GeminiFinally(r, temp_file, unlink_fail) ==
    IF Exists(r.fs, temp_file) /\ ~unlink_fail
    THEN [r EXCEPT !.fs = Unlink(r.fs, temp_file),
                   !.tr = r.tr \o <<Ev("unlink", 0, temp_file, temp_file, TRUE)>>]
    ELSE r

\* the encode of convert_to_mp4 (Gemini.py:534-589): ffmpeg into the temp
\* file, the move onto the output, the side-file cleanup, the finally block
gemini_encode(input_file, f, tr0, enc, io_fail, unlink_fail) ==
    LET output_file == with_suffix(input_file, <<".mp4">>)
        temp_file == with_suffix(input_file, TempSuffix)
        run == Ffmpeg(f, input_file, temp_file, enc)
        r1 == [fs |-> run.fs, ret |-> "None",
               tr |-> tr0 \o <<Ev("ffmpeg", 0, input_file, temp_file, run.ok)>>]
    IN IF ~run.ok THEN GeminiFinally(r1, temp_file, unlink_fail)
       ELSE LET mv == ShutilMove(r1.fs, temp_file, output_file, io_fail)
            IN IF ~mv.ok THEN GeminiFinally(r1, temp_file, unlink_fail)
               ELSE LET r2 == [r1 EXCEPT
                                 !.fs = mv.fs,
                                 !.tr = r1.tr \o <<Ev("rename", 0, temp_file, output_file,
                                                      NonEmpty(r1.fs[temp_file]))>>,
                                 !.ret = "converted"]
                    IN GeminiFinally(delete_sidecar_files(r2, input_file, unlink_fail),
                                     temp_file, unlink_fail)

\* what convert_to_mp4 returns before it encodes (Gemini.py:450-529): None
\* for a missing input, a skip for an existing output, the dry-run result;
\* "encode" when the encoder is to be run
gemini_early_return(input_file, f) ==
    IF ~Exists(f, input_file) THEN "None"
    ELSE IF Exists(f, with_suffix(input_file, <<".mp4">>)) THEN "skipped_already_converted"
    ELSE IF app_config.DRY_RUN THEN "dry_run"
    ELSE "encode"

\* convert_to_mp4(input_file) (Gemini.py:439-589)
gemini_convert_to_mp4(input_file, f, enc, io_fail, unlink_fail) ==
    LET output_file == with_suffix(input_file, <<".mp4">>)
        tr0 == <<Ev("begin", 0, input_file, output_file, Exists(f, output_file))>>
        early == gemini_early_return(input_file, f)
    IN IF early # "encode" THEN [fs |-> f, tr |-> tr0, ret |-> early]
       ELSE gemini_encode(input_file, f, tr0, enc, io_fail, unlink_fail)

(***************************************************************************)
(* ConvertandMove.py                                                       *)
(***************************************************************************)
\* ConvertandMove.py:28-31
CLEANUP_TERMS == {"1080p", "720p", "BluRay", "x264", "YTS", "BRRip", "WEBRip", "WEB-DL",
                  "HDRip", "DVDRip", "AAC", "5.1", "H264", "H265", "HEVC"}

\* "_".join(words)
RECURSIVE JoinUnderscore(_)
JoinUnderscore(words) ==
    IF Len(words) <= 1 THEN words
    ELSE <<words[1], "_">> \o JoinUnderscore(Tail(words))

\* clean_filename (ConvertandMove.py:105-117): the cleaned name, and the
\* rename when it differs (a failing rename is logged and ignored).
cam_cleaned_path(file_path) ==
    LET kept == SelectSeq(Stem(file_path.name), LAMBDA t : t \notin CLEANUP_TERMS)
        words == SelectSeq(kept, LAMBDA t : t \notin {" ", "_"})
    IN Path(file_path.dir, JoinUnderscore(words) \o Suffix(file_path.name))

cam_clean_filename(file_path, f, io_fail) ==
    LET cleaned_path == cam_cleaned_path(file_path)
    IN [path |-> cleaned_path,
        fs |-> IF cleaned_path # file_path
               THEN Rename(f, file_path, cleaned_path, io_fail).fs ELSE f]

\* convert_to_mp4(input_file) (ConvertandMove.py:119-163)
cam_convert_to_mp4(file_path, f, enc, io_fail, clean_fail) ==
    LET cl == cam_clean_filename(file_path, f, clean_fail)
        input_file == cl.path
        output_file == with_suffix(input_file, <<".mp4">>)
        temp_file == with_suffix(input_file, TempSuffix)
        tr0 == <<Ev("begin", 0, input_file, output_file, Exists(cl.fs, output_file))>>
    IN IF Exists(cl.fs, output_file) THEN [fs |-> cl.fs, tr |-> tr0, ret |-> "True"]
       ELSE IF app_config.DRY_RUN THEN [fs |-> cl.fs, tr |-> tr0, ret |-> "True"]
       ELSE LET run == Ffmpeg(cl.fs, input_file, temp_file, enc)
                tr1 == tr0 \o <<Ev("ffmpeg", 0, input_file, temp_file, run.ok)>>
                mv == ShutilMove(run.fs, temp_file, output_file, io_fail)
            IN IF run.ok /\ mv.ok
               THEN [fs |-> Unlink(mv.fs, input_file), ret |-> "True",
                     tr |-> tr1 \o <<Ev("rename", 0, temp_file, output_file, NonEmpty(run.fs[temp_file])),
                                     Ev("unlink_source", 0, input_file, input_file, TRUE)>>]
               ELSE [fs |-> Unlink(run.fs, temp_file), ret |-> "False",
                     tr |-> tr1 \o (IF Exists(run.fs, temp_file)
                                    THEN <<Ev("unlink", 0, temp_file, temp_file, TRUE)>> ELSE <<>>)]

(***************************************************************************)
(* The conversion pipeline as a state machine                              *)
(***************************************************************************)
MaxFiles == 2
MaxRuns == 2

SourceDir == <<"E:", "Movies">>
Templates == { <<"{title}">>, <<"{title}", " - ", "{width}", "p">> }

SubtitleInputs ==
    { None,
      Some([index |-> 2, ffmpeg_index |-> 0, language |-> "eng", is_forced |-> TRUE,
            is_text_based |-> FALSE, action |-> "burn"]) }

\* the order in which a scan finds the files
ScanOrder == << <<"movie", ".mkv">>, <<"movie", " ", "1080p", ".mkv">>, <<"clip", ".mp4">> >>

\* the strictly increasing index sequences of length n into ScanOrder
IndexSeqs(n) ==
    { s \in [1..n -> 1..Len(ScanOrder)] : \A i, j \in 1..n : i < j => s[i] < s[j] }

\* the batches a scan can produce: distinct files in scan order, each with
\* or without an auto-selected burn-in subtitle
Batches ==
    UNION { { [i \in 1..n |-> MediaFile(Path(SourceDir, ScanOrder[s[i]]), subs[i])] :
                  s \in IndexSeqs(n), subs \in [1..n -> SubtitleInputs] }
            : n \in 1..MaxFiles }

SourceFs(srcs) == [p \in srcs |-> [kind |-> "orig", from |-> p]]

InitConvert ==
    /\ media_files \in Batches
    /\ fs = SourceFs({ media_files[i].source_path : i \in 1..Len(media_files) })
    /\ settings \in [ dry_run : BOOLEAN, delete_source_on_success : BOOLEAN, use_two_pass : BOOLEAN,
                      filename_template : Templates, output_directory : {<<".", "converted">>} ]
    /\ app_config = [ DRY_RUN |-> FALSE ]
    /\ platform \in {"win32", "linux"}
    /\ trace = <<>>
    /\ ret = [fn |-> "none", value |-> "unset"]
    /\ runs = 0

\* the stand-alone scripts start from the *.mkv files of the source folder
InitScripts ==
    /\ media_files = <<>>
    /\ \E n \in 1..MaxFiles : \E s \in IndexSeqs(n) :
          fs = SourceFs({ Path(SourceDir, ScanOrder[s[i]]) : i \in 1..n })
    /\ settings = [ dry_run |-> FALSE, delete_source_on_success |-> FALSE,
                    filename_template |-> <<"{title}">>, output_directory |-> <<".", "converted">> ]
    /\ app_config \in [ DRY_RUN : BOOLEAN ]
    /\ platform \in {"win32", "linux"}
    /\ trace = <<>>
    /\ ret = [fn |-> "none", value |-> "unset"]
    /\ runs = 0

\* Path.rglob("*.mkv")
MkvFiles(f) == { p \in DOMAIN f : Suffix(p.name) = <<".mkv">> }

\* basic_convert.run_batch_basic_conversion(media_files, settings)
RunBatchBasicConversion ==
    /\ runs < MaxRuns
    /\ \E encs \in [1..Len(media_files) -> EncOutcomes], ios \in [1..Len(media_files) -> BOOLEAN] :
          LET r == BatchBasic(media_files, fs, 1, encs, ios)
          IN /\ fs' = r.fs
             /\ media_files' = r.ms
             /\ trace' = r.tr
    /\ ret' = [fn |-> "run_batch_basic_conversion", value |-> "None"]
    /\ runs' = runs + 1
    /\ UNCHANGED <<settings, app_config, platform>>
    /\ UNCHANGED <<classifyVars, poolVars, transferVars, dashVars>>

\* convert.convert_batch(media_files, settings)
ConvertBatch ==
    /\ runs < MaxRuns
    /\ \E encs \in [1..Len(media_files) -> EncOutcomes] :
          LET r == BatchConvert(media_files, fs, 1, encs)
          IN /\ fs' = r.fs
             /\ media_files' = r.ms
             /\ trace' = r.tr
    /\ ret' = [fn |-> "convert_batch", value |-> "media_files"]
    /\ runs' = runs + 1
    /\ UNCHANGED <<settings, app_config, platform>>
    /\ UNCHANGED <<classifyVars, poolVars, transferVars, dashVars>>

\* Gemini.convert_to_mp4(input_file) for one of the *.mkv files found
GeminiConvertToMp4 ==
    /\ runs < MaxRuns
    /\ \E input_file \in MkvFiles(fs), enc \in EncOutcomes, io_fail \in BOOLEAN, unlink_fail \in BOOLEAN :
          LET r == gemini_convert_to_mp4(input_file, fs, enc, io_fail, unlink_fail)
          IN /\ fs' = r.fs
             /\ trace' = r.tr
             /\ ret' = [fn |-> "Gemini.convert_to_mp4", value |-> r.ret]
    /\ runs' = runs + 1
    /\ UNCHANGED <<media_files, settings, app_config, platform>>
    /\ UNCHANGED <<classifyVars, poolVars, transferVars, dashVars>>

\* ConvertandMove.convert_to_mp4(input_file) for one of the *.mkv files found
CamConvertToMp4 ==
    /\ runs < MaxRuns
    /\ \E input_file \in MkvFiles(fs), enc \in EncOutcomes, io_fail \in BOOLEAN, clean_fail \in BOOLEAN :
          LET r == cam_convert_to_mp4(input_file, fs, enc, io_fail, clean_fail)
          IN /\ fs' = r.fs
             /\ trace' = r.tr
             /\ ret' = [fn |-> "ConvertandMove.convert_to_mp4", value |-> r.ret]
    /\ runs' = runs + 1
    /\ UNCHANGED <<media_files, settings, app_config, platform>>
    /\ UNCHANGED <<classifyVars, poolVars, transferVars, dashVars>>

(***************************************************************************)
(* mkv_modifier.py                                                         *)
(***************************************************************************)
\* outcomes of  mkvmerge -J file  and of the rewriting mkvmerge run
IdentifyOutcomes == {"fail", "badjson", "ok"}
RemuxOutcomes == {"fail", "fail_partial", "ok", "ok_empty", "ok_missing"}

TrackIds(tracks, types) ==
    SelectSeq([k \in 1..Len(tracks) |-> tracks[k]], LAMBDA t : t.type \in types)

\* the except block (mkv_modifier.py:86-92)
MkvExcept(f, temp_output_file, tr) ==
    [fs |-> Unlink(f, temp_output_file), ret |-> "False",
     tr |-> tr \o (IF Exists(f, temp_output_file)
                   THEN <<Ev("unlink", 0, temp_output_file, temp_output_file, TRUE)>> ELSE <<>>)]

\* what the rewriting mkvmerge run leaves at temp_output_file
MkvmergeRewrite(f, mkv_file, temp_output_file, kept, outcome) ==
    IF outcome \in {"fail", "ok_missing"} THEN f
    ELSE WriteFile(f, temp_output_file,
                   [kind |-> (CASE outcome = "fail_partial" -> "partial"
                                [] outcome = "ok_empty" -> "empty"
                                [] OTHER -> "remuxed"),
                    from |-> mkv_file, tracks |-> kept])

\* remove_subtitle_tracks(mkv_file, track_ids_to_remove) (mkv_modifier.py:14-92)
remove_subtitle_tracks(mkv_file, track_ids_to_remove, f, id_out, mux_out, unlink_fail, rename_fail) ==
    LET temp_output_file == with_name(mkv_file, Stem(mkv_file.name) \o <<"_modified", ".mkv">>)
        tr0 == <<Ev("begin", 0, mkv_file, temp_output_file, Exists(f, mkv_file))>>
    IN IF ~app_config.MKVMERGE_EXISTS THEN [fs |-> f, ret |-> "False", tr |-> tr0]
       ELSE IF id_out # "ok" \/ ~Exists(f, mkv_file) THEN MkvExcept(f, temp_output_file, tr0)
       ELSE LET tracks == f[mkv_file].tracks
                video_tracks == TrackIds(tracks, {"video"})
                audio_tracks == TrackIds(tracks, {"audio"})
                kept == SelectSeq(tracks, LAMBDA t : t.type \in {"video", "audio"}
                                              \/ (t.type = "subtitles" /\ t.id \notin track_ids_to_remove))
            IN IF video_tracks = <<>> /\ audio_tracks = <<>>
               THEN [fs |-> f, ret |-> "False", tr |-> tr0]
               ELSE LET f1 == MkvmergeRewrite(f, mkv_file, temp_output_file, kept, mux_out)
                        tr1 == tr0 \o <<Ev("mkvmerge", 0, mkv_file, temp_output_file,
                                           mux_out \notin {"fail", "fail_partial"})>>
                    IN IF mux_out \in {"fail", "fail_partial"} THEN MkvExcept(f1, temp_output_file, tr1)
                       ELSE IF Exists(f1, temp_output_file) /\ NonEmpty(f1[temp_output_file])
                       THEN IF unlink_fail THEN MkvExcept(f1, temp_output_file, tr1)
                            ELSE LET f2 == Unlink(f1, mkv_file)
                                     tr2 == tr1 \o <<Ev("unlink_source", 0, mkv_file, mkv_file, TRUE)>>
                                     rn == Rename(f2, temp_output_file, mkv_file, rename_fail)
                                 IN IF ~rn.ok THEN MkvExcept(f2, temp_output_file, tr2)
                                    ELSE [fs |-> rn.fs, ret |-> "True",
                                          tr |-> tr2 \o <<Ev("rename", 0, temp_output_file, mkv_file, TRUE)>>]
                       ELSE [fs |-> Unlink(f1, temp_output_file), ret |-> "False", tr |-> tr1]

\* the containers the track remover is applied to
TrackLayouts ==
    { << [id |-> 0, type |-> "video"], [id |-> 1, type |-> "audio"],
         [id |-> 2, type |-> "subtitles"], [id |-> 3, type |-> "subtitles"] >>,
      << [id |-> 0, type |-> "audio"], [id |-> 1, type |-> "subtitles"] >>,
      << [id |-> 0, type |-> "subtitles"] >> }

MkvFile == Path(SourceDir, <<"movie", ".mkv">>)
RemovableIds == {1, 2, 3}

InitMkv ==
    /\ \E tracks \in TrackLayouts :
          fs = (MkvFile :> [kind |-> "orig", from |-> MkvFile, tracks |-> tracks])
    /\ app_config \in [ MKVMERGE_EXISTS : BOOLEAN ]
    /\ platform \in {"win32", "linux"}
    /\ media_files = <<>>
    /\ settings = <<>>
    /\ trace = <<>>
    /\ ret = [fn |-> "none", value |-> "unset"]
    /\ runs = 0

\* mkv_modifier.remove_subtitle_tracks(mkv_file, track_ids_to_remove)
RemoveSubtitleTracks ==
    /\ runs < MaxRuns
    /\ \E track_ids_to_remove \in SUBSET RemovableIds,
          id_out \in IdentifyOutcomes, mux_out \in RemuxOutcomes,
          unlink_fail \in BOOLEAN, rename_fail \in BOOLEAN :
          LET r == remove_subtitle_tracks(MkvFile, track_ids_to_remove, fs,
                                          id_out, mux_out, unlink_fail, rename_fail)
          IN /\ fs' = r.fs
             /\ trace' = r.tr
             /\ ret' = [fn |-> "remove_subtitle_tracks", value |-> r.ret]
    /\ runs' = runs + 1
    /\ UNCHANGED <<media_files, settings, app_config, platform>>
    /\ UNCHANGED <<classifyVars, poolVars, transferVars, dashVars>>

(***************************************************************************)
(* file_handler.py                                                         *)
(***************************************************************************)
IsPrefix(a, b) == Len(a) <= Len(b) /\ SubSeq(b, 1, Len(a)) = a
\* the directory and all its ancestors
Ancestors(d) == { SubSeq(d, 1, n) : n \in 1..Len(d) }
DirsOf(f) == UNION { Ancestors(p.dir) : p \in DOMAIN f }
\* any(d.iterdir())
HasEntries_FoldersOnly(f, ds, d) ==
    \E c \in ds : Len(c) = Len(d) + 1 /\ IsPrefix(d, c)

HasEntries(f, ds, d) ==
    \/ \E p \in DOMAIN f : p.dir = d
    \/ \E c \in ds : Len(c) = Len(d) + 1 /\ IsPrefix(d, c)

EmptyLog == [k \in {} |-> <<>>]

\* read_move_log (file_handler.py:20-28): {} when the file is missing or
\* does not parse
read_move_log(file) == IF file.valid THEN file.data ELSE EmptyLog

\* write_move_log (file_handler.py:30-36): the file is opened for writing,
\* which truncates it, and the data dumped; an IOError is logged.
write_move_log(log_data, write_fail) ==
    IF write_fail THEN [valid |-> FALSE, data |-> EmptyLog]
    ELSE [valid |-> TRUE, data |-> log_data]

\* the first configured root that is an ancestor of the source path
\* (file_handler.py:65-69); None when there is none
FindSourceRoot(source_path, roots) ==
    LET hits == { k \in 1..Len(roots) : IsPrefix(roots[k], source_path.dir) }
    IN IF hits = {} THEN None
       ELSE Some(roots[CHOOSE k \in hits : \A j \in hits : k <= j])

\* the except block (file_handler.py:103-112)
MoveExcept(st, m, i, final_destination_path, now) ==
    [st EXCEPT !.ms[i].status = "Transfer Error",
               !.ms[i].error_message = Some("move failed"),
               !.log = (m.source_path :> [final_destination |-> final_destination_path,
                                          status |-> "Failed", timestamp |-> now]) @@ st.log,
               !.tr = st.tr \o <<Ev("log_set", i, m.source_path, final_destination_path, FALSE)>>]

\* one iteration of the loop of move_converted_files (file_handler.py:52-114)
\* st = [fs, dirs, ms, log, file, tr, raised]
MoveOne(st, i, cfg, has_callback, move_fail, write_fail, now) ==
    LET m == st.ms[i]
        converted == m.destination_path
        st0 == [st EXCEPT !.tr = st.tr \o
                   <<Ev("begin", i, m.source_path, IF IsNone(converted) THEN m.source_path ELSE Val(converted),
                        m.source_path \in DOMAIN st.log /\ st.log[m.source_path].status = "Moved")>>]
    IN IF has_callback /\ IsNone(converted) THEN [st0 EXCEPT !.raised = TRUE]
       ELSE IF IsNone(converted) \/ ~Exists(st.fs, Val(converted)) THEN st0
       ELSE LET root == FindSourceRoot(m.source_path, cfg.source_root_folders)
            IN IF IsNone(root)
               THEN [st0 EXCEPT !.tr = st0.tr \o <<Ev("no_root", i, m.source_path, Val(converted), TRUE)>>]
               ELSE LET converted_file_path == Val(converted)
                        original_source_root == Val(root)
                        final_destination_path ==
                            Path(cfg.destination_base \o <<original_source_root[Len(original_source_root)]>>,
                                 converted_file_path.name)
                        Finally(x) == [x EXCEPT !.file = write_move_log(x.log, write_fail)]
                    IN IF cfg.dry_run
                       THEN Finally([st0 EXCEPT !.ms[i].status = "Transferred (Dry Run)"])
                       ELSE LET dirs1 == st0.dirs \cup Ancestors(final_destination_path.dir)
                                mv == ShutilMove(st0.fs, converted_file_path, final_destination_path, move_fail)
                            IN IF ~mv.ok
                               THEN Finally(MoveExcept([st0 EXCEPT !.dirs = dirs1], m, i,
                                                       final_destination_path, now))
                               ELSE LET original_parent_dir == m.source_path.dir
                                        remove_parent ==
                                            /\ ~Exists(mv.fs, m.source_path)
                                            /\ original_parent_dir \in dirs1
                                            /\ \A k \in 1..Len(cfg.source_root_folders) :
                                                   cfg.source_root_folders[k] # original_parent_dir
                                            /\ ~HasEntries(mv.fs, dirs1, original_parent_dir)
                                    IN Finally([st0 EXCEPT
                                          !.fs = mv.fs,
                                          !.dirs = IF remove_parent THEN dirs1 \ {original_parent_dir} ELSE dirs1,
                                          !.ms[i].status = "Transferred",
                                          !.log = (m.source_path :>
                                                      [final_destination |-> final_destination_path,
                                                       status |-> "Moved", timestamp |-> now]) @@ st0.log,
                                          !.tr = st0.tr \o
                                              <<Ev("move", i, converted_file_path, final_destination_path, TRUE),
                                                Ev("log_set", i, m.source_path, final_destination_path, TRUE)>>
                                              \o (IF remove_parent
                                                  THEN <<Ev("rmdir", i, m.source_path, m.source_path, TRUE)>>
                                                  ELSE <<>>)])

\* move_converted_files (file_handler.py:38-117): the log is read once, the
\* files are handled in order; an exception outside the try block ends the call.
RECURSIVE MoveLoop(_, _, _, _, _, _, _)
MoveLoop(st, i, cfg, has_callback, move_fails, write_fails, now) ==
    IF i > Len(st.ms) \/ st.raised THEN st
    ELSE MoveLoop(MoveOne(st, i, cfg, has_callback, move_fails[i], write_fails[i], now),
                  i + 1, cfg, has_callback, move_fails, write_fails, now)

move_converted_files(ms, f, ds, file, cfg, has_callback, move_fails, write_fails, now) ==
    MoveLoop([fs |-> f, dirs |-> ds, ms |-> ms, log |-> read_move_log(file), file |-> file,
              tr |-> <<>>, raised |-> FALSE],
             1, cfg, has_callback, move_fails, write_fails, now)

\* the files of a transfer session, in scan order: in a subfolder of a
\* root, in a root itself, under another root, outside every root
TransferScanOrder ==
    << Path(<<"E:", "Movies", "Film">>, <<"movie", ".mkv">>),
       Path(<<"E:", "Movies">>, <<"clip", ".mp4">>),
       Path(<<"E:", "TV", "Show">>, <<"movie", ".mkv">>),
       Path(<<"D:", "Other">>, <<"movie", ".mkv">>) >>

TransferIndexSeqs(n) ==
    { s \in [1..n -> 1..Len(TransferScanOrder)] : \A i, j \in 1..n : i < j => s[i] < s[j] }

TransferBatches ==
    UNION { { [i \in 1..n |-> MediaFile(TransferScanOrder[s[i]], None)] : s \in TransferIndexSeqs(n) }
            : n \in 1..MaxFiles }

SourceRootFolders == << <<"E:", "Movies">>, <<"E:", "TV">> >>
DestinationBase == <<"Z:", "Media">>

MaxTransfers == 2

\* A session starts from a scan of the source folders; no transfer log has
\* been written yet.
InitTransfer ==
    /\ media_files \in TransferBatches
    /\ fs = SourceFs({ media_files[i].source_path : i \in 1..Len(media_files) })
    /\ dirs = UNION { Ancestors(media_files[i].source_path.dir) : i \in 1..Len(media_files) }
    /\ move_log_file = [valid |-> FALSE, data |-> EmptyLog]
    /\ settings = [ dry_run |-> FALSE, delete_source_on_success |-> FALSE,
                    filename_template |-> <<"{title}">>, output_directory |-> <<".", "converted">> ]
    /\ app_config = [ DRY_RUN |-> FALSE ]
    /\ platform \in {"win32", "linux"}
    /\ transfer_config \in [ destination_base : {DestinationBase},
                             source_root_folders : {SourceRootFolders},
                             dry_run : BOOLEAN ]
    /\ transfers = 0
    /\ trace = <<>>
    /\ ret = [fn |-> "none", value |-> "unset"]
    /\ runs = 0

\* file_handler.move_converted_files(media_files, destination_base,
\* source_root_folders, dry_run, progress_callback)
MoveConvertedFiles ==
    /\ transfers < MaxTransfers
    /\ \E has_callback \in BOOLEAN,
          move_fails \in [1..Len(media_files) -> BOOLEAN],
          write_fails \in [1..Len(media_files) -> BOOLEAN] :
          LET r == move_converted_files(media_files, fs, dirs, move_log_file, transfer_config,
                                        has_callback, move_fails, write_fails, runs + transfers + 1)
          IN /\ fs' = r.fs
             /\ dirs' = r.dirs
             /\ media_files' = r.ms
             /\ move_log_file' = r.file
             /\ trace' = r.tr
             /\ ret' = [fn |-> "move_converted_files",
                        value |-> IF r.raised THEN "AttributeError" ELSE "None"]
    /\ transfers' = transfers + 1
    /\ UNCHANGED <<settings, app_config, platform, transfer_config, runs>>
    /\ UNCHANGED <<classifyVars, poolVars, dashVars>>

(***************************************************************************)
(* subtitlesmkv.py and dashboard.py: scanning, the subtitle selection of   *)
(* a list item and the combined conversion task                            *)
(***************************************************************************)
\* what ffprobe reports for the subtitle streams of a file
StreamLayouts ==
    { <<>>,
      << [index |-> 2, language |-> "spa", is_forced |-> FALSE],
         [index |-> 3, language |-> "eng", is_forced |-> TRUE] >>,
      << [index |-> 2, language |-> "eng", is_forced |-> TRUE],
         [index |-> 3, language |-> "eng", is_forced |-> TRUE] >> }

\* scan_file(file_path) (subtitlesmkv.py:36-124): one SubtitleTrack per
\* stream, then the first English forced track is selected for burn-in;
\* a failing ffprobe gives an Error record.  The codec fields are not set.
scan_file(file_path, streams, probe_ok) ==
    LET media == [MediaFile(file_path, None) EXCEPT !.status = "Scanning"]
        tracks == [k \in 1..Len(streams) |->
                      [index |-> streams[k].index, ffmpeg_index |-> k - 1,
                       language |-> streams[k].language, is_forced |-> streams[k].is_forced,
                       is_text_based |-> FALSE, action |-> "ignore"]]
        forced == { k \in 1..Len(tracks) : tracks[k].language = "eng" /\ tracks[k].is_forced }
        first == CHOOSE k \in forced : \A j \in forced : k <= j
    IN IF ~probe_ok
       THEN [media EXCEPT !.status = "Error", !.error_message = Some("ffprobe failed")]
       ELSE IF forced = {}
       THEN [media EXCEPT !.subtitle_tracks = tracks, !.status = "Ready"]
       ELSE [media EXCEPT !.subtitle_tracks = [tracks EXCEPT ![first].action = "burn"],
                          !.burned_subtitle = Some(first),
                          !.status = "Ready"]

\* the check boxes populate_selection_controls builds (dashboard.py:848-853)
soft_copy_checkboxes(m) == { k \in 1..Len(m.subtitle_tracks) : m.subtitle_tracks[k].is_text_based }

\* the subtitle actions update_media_file_from_ui leaves
\* (dashboard.py:886-894): all tracks are reset to ignore, the selected track
\* is marked burn, and every checked track other than the burn selection is
\* marked copy.
SelectedActions(m, burned, checked) ==
    [k \in 1..Len(m.subtitle_tracks) |->
        LET reset == [m.subtitle_tracks[k] EXCEPT !.action = "ignore"]
            marked == IF burned = Some(k) THEN [reset EXCEPT !.action = "burn"] ELSE reset
            same_as_burn == (~IsNone(burned)) /\
                            m.subtitle_tracks[Val(burned)].index = m.subtitle_tracks[k].index
        IN IF k \in checked /\ ~same_as_burn THEN [marked EXCEPT !.action = "copy"] ELSE marked]

\* MediaFileItemWidget.update_media_file_from_ui (dashboard.py:878-894).
\* ui = [remux_checkbox, burn_combo, checked]: burn_combo is 0 for "None" or
\* the position of the selected track.  classify() is called on the record
\* as it is before the selection is stored in it.
update_media_file_from_ui(m, ui) ==
    LET use_basic == IF ui.remux_checkbox THEN TRUE
                     ELSE classify(m.burned_subtitle, m.audio_codec, m.video_codec) = "remux"
        burned == IF ui.burn_combo = 0 THEN None ELSE Some(ui.burn_combo)
    IN [m EXCEPT !.use_basic_conversion = use_basic,
                 !.burned_subtitle = burned,
                 !.subtitle_tracks = SelectedActions(m, burned, ui.checked)]

\* generate_preview with a side effect: it stores the classification in the
\* record
generate_preview_Storing(m, s) ==
    [ m |-> [m EXCEPT !.use_basic_conversion = ~m.use_basic_conversion,
                      !.status = "Previewed"],
      text |-> << classify(m.burned_subtitle, m.audio_codec, m.video_codec) >> ]

\* MediaFile.generate_preview(settings) (models.py:95-138): the record as the
\* call leaves it and the lines of the plan it returns: operation type,
\* video action, audio action, subtitle to burn, subtitles to copy, output
\* name, embedded title.  The function reads fields and assigns none.  A
\* burned_subtitle that is not among the record's tracks is still a track
\* object and is named as such.
generate_preview(m, s) ==
    LET conversion_type == classify(m.burned_subtitle, m.audio_codec, m.video_codec)
        video_plan == IF ~IsNone(m.burned_subtitle)
                      THEN (IF s.use_two_pass THEN "Re-encode (2-Pass)" ELSE "Re-encode")
                      ELSE "Copy (remux)"
        audio_plan == IF TruthyStr(m.audio_codec) /\ Lower(Val(m.audio_codec)) \in compatible_audio
                         /\ m.audio_channels >= 6
                      THEN "Copy existing stream" ELSE "Re-encode"
        burned == IF IsNone(m.burned_subtitle) THEN <<"None">>
                  ELSE IF Val(m.burned_subtitle) \in 1..Len(m.subtitle_tracks)
                  THEN <<"Track", m.subtitle_tracks[Val(m.burned_subtitle)].index>>
                  ELSE <<"Track (not in subtitle_tracks)">>
        copied == SelectSeq(m.subtitle_tracks, LAMBDA t : t.action = "copy")
    IN [ m |-> m,
         text |-> << IF conversion_type = "remux" THEN "Fast Remux" ELSE "Full Re-encode",
                     video_plan, audio_plan, burned,
                     [k \in 1..Len(copied) |-> copied[k].index],
                     m.output_filename, m.title >> ]

\* the basic_files of the batch, in list order, through
\* run_batch_basic_conversion (dashboard.py:1065, 1068-1069)
RECURSIVE CombinedBasic(_, _, _, _, _)
CombinedBasic(ms, f, i, encs, ios) ==
    IF i > Len(ms) THEN [fs |-> f, ms |-> ms, tr |-> <<>>]
    ELSE LET r == IF ms[i].use_basic_conversion
                  THEN run_basic_conversion(ms[i], f, i, encs[i], ios[i])
                  ELSE [fs |-> f, m |-> ms[i], tr |-> <<>>]
             rest == CombinedBasic([ms EXCEPT ![i] = r.m], r.fs, i + 1, encs, ios)
         IN [rest EXCEPT !.tr = r.tr \o rest.tr]

\* the first loop of Dashboard._run_combined_conversion
\* (dashboard.py:1059-1063): every file is updated from its list item and
\* reported Queued.
queue_files(files, uis) ==
    [i \in 1..Len(files) |->
        [update_media_file_from_ui(files[i], uis[i]) EXCEPT !.status = "Queued"]]

\* the rest of Dashboard._run_combined_conversion (dashboard.py:1065-1074) on
\* the queued files: those flagged use_basic_conversion go through
\* run_batch_basic_conversion; the others are handed to convert.convert_batch
\* with five positional arguments, which convert_batch(media_files, settings)
\* rejects with a TypeError.  The "queued" event records what classify() says
\* of the record as queued.
run_combined_conversion(queued, f, encs, ios) ==
    LET qtr == [i \in 1..Len(queued) |->
                   Ev("queued", i, queued[i].source_path, queued[i].source_path,
                      classify(queued[i].burned_subtitle, queued[i].audio_codec,
                               queued[i].video_codec) = "remux")]
        b == CombinedBasic(queued, f, 1, encs, ios)
        advanced_files == { i \in 1..Len(queued) : ~queued[i].use_basic_conversion }
    IN [fs |-> b.fs, ms |-> b.ms, tr |-> qtr \o b.tr, raised |-> advanced_files # {}]

DashFiles == << Path(SourceDir, <<"movie", ".mkv">>), Path(SourceDir, <<"movie", " ", "1080p", ".mkv">>) >>

\* the encoder outcomes and the list-item inputs drawn for a dashboard task
DashEncOutcomes == {"ok", "fail"}

\* how many conversion tasks the dashboard starts
MaxTasks == 1
UiInputs(m, items) ==
    [ remux_checkbox : BOOLEAN,
      burn_combo : 0..items,
      checked : SUBSET soft_copy_checkboxes(m) ]

\* the statuses for which MediaFileItemWidget.refresh_state shows the status
\* or the result page and leaves the selection controls as they are
\* (dashboard.py:813-815)
KeepsControls(status) ==
    status \in {"Preparing", "Queued", "Remuxing", "Encoding Pass 1/2", "Encoding Pass 2/2",
                "Converted", "Transferred", "Skipped (Exists)", "Converted (Basic)", "Error"}

\* MediaFileItemWidget.refresh_state (dashboard.py:803-834): the output name
\* is regenerated from the template, and unless the status page or the
\* result page is shown populate_selection_controls (836-842) refills the
\* burn combo with the tracks of the record.  items is the number of track
\* entries of the combo.
refresh_state(m, items, template) ==
    [ m |-> [m EXCEPT !.output_filename = generate_filename_from_template(m, template)],
      items |-> IF KeepsControls(m.status) THEN items ELSE Len(m.subtitle_tracks) ]

\* the dashboard after a scan (on_scan_finished): one record per file found
InitDash ==
    /\ \E n \in 1..MaxFiles : \E layouts \in [1..n -> StreamLayouts] :
          /\ n <= Len(DashFiles)
          /\ media_files = [i \in 1..n |-> scan_file(DashFiles[i], layouts[i], TRUE)]
          /\ fs = [p \in { DashFiles[i] : i \in 1..n } |->
                      [kind |-> "orig", from |-> p,
                       streams |-> layouts[CHOOSE i \in 1..n : DashFiles[i] = p]]]
    /\ settings \in [ dry_run : {FALSE}, delete_source_on_success : {FALSE}, use_two_pass : {TRUE},
                      filename_template : {<<"{title}">>}, output_directory : {<<".", "converted">>} ]
    /\ app_config = [ DRY_RUN |-> FALSE ]
    /\ platform = "win32"
    /\ trace = <<>>
    /\ ret = [fn |-> "none", value |-> "unset"]
    /\ runs = 0
    /\ task = "idle"
    /\ status_bar = "Scan complete."
    /\ cancel_requested = FALSE
    /\ burn_combo_items = [i \in 1..Len(media_files) |-> Len(media_files[i].subtitle_tracks)]

\* Dashboard.start_conversion (dashboard.py:1076-1091) and _run_task
\* (965-973): the buttons are disabled and the worker thread is started.
StartConversion ==
    /\ task = "idle"
    /\ runs < MaxTasks
    /\ task' = "_run_combined_conversion"
    /\ status_bar' = "Running _run_combined_conversion..."
    /\ cancel_requested' = FALSE
    /\ UNCHANGED <<burn_combo_items, convertVars, classifyVars, poolVars, transferVars>>

\* Dashboard.cancel_task (dashboard.py:1004-1005); the Cancel button is
\* enabled while the other buttons are disabled.
CancelTask ==
    /\ task # "idle"
    /\ status_bar' = "Cancellation requested..."
    /\ cancel_requested' = TRUE
    /\ UNCHANGED <<task, burn_combo_items, convertVars, classifyVars, poolVars, transferVars>>

\* Worker.run (dashboard.py:590-599) of _run_combined_conversion, then
\* on_action_finished (1148-1150) or, after an exception, on_task_error
\* (1200-1204).  Only Worker.finished ends the thread and re-enables the
\* buttons, so after an error the dashboard stays in the running state.
\* on_action_finished calls refresh_ui (1157-1163), which refreshes every
\* widget.
RunCombinedConversion ==
    /\ task = "_run_combined_conversion"
    /\ \E uis \in [1..Len(media_files) ->
                      UNION { UiInputs(media_files[i], burn_combo_items[i]) : i \in 1..Len(media_files) }],
          encs \in [1..Len(media_files) -> DashEncOutcomes] :
          /\ \A i \in 1..Len(media_files) : uis[i] \in UiInputs(media_files[i], burn_combo_items[i])
          /\ \E queued \in {queue_files(media_files, uis)} :
                /\ \A i \in 1..Len(queued) : queued[i].use_basic_conversion \/ encs[i] = "ok"
                /\ \E r \in {run_combined_conversion(queued, fs, encs,
                                                       [i \in 1..Len(media_files) |-> FALSE])} :
                      \E shown \in {[i \in 1..Len(media_files) |->
                                        refresh_state(r.ms[i], burn_combo_items[i],
                                                      settings.filename_template)]} :
                         /\ fs' = r.fs
                         /\ media_files' = IF r.raised THEN r.ms
                                           ELSE [i \in 1..Len(media_files) |-> shown[i].m]
                         /\ burn_combo_items' = IF r.raised THEN burn_combo_items
                                                ELSE [i \in 1..Len(media_files) |-> shown[i].items]
                         /\ trace' = r.tr
                         /\ ret' = [fn |-> "_run_combined_conversion",
                                    value |-> IF r.raised THEN "TypeError" ELSE "files"]
                         /\ task' = IF r.raised THEN "failed" ELSE "idle"
                         /\ status_bar' = IF r.raised THEN "Error occurred"
                                          ELSE "Task finished successfully."
    /\ runs' = runs + 1
    /\ UNCHANGED <<settings, app_config, platform, cancel_requested>>
    /\ UNCHANGED <<classifyVars, poolVars, transferVars>>

\* Dashboard.refresh_list_item (dashboard.py:1173-1189): the record of a list
\* item is replaced by a fresh scan that keeps the edited metadata, and the
\* widget is refreshed.  After a failed scan the widget shows the result
\* page, so the burn combo keeps the tracks of the record that was replaced.
RefreshListItem ==
    /\ task = "idle"
    /\ \E i \in 1..Len(media_files), probe_ok \in BOOLEAN :
          LET old == media_files[i]
              p == old.source_path
              new_media_file_state ==
                  [scan_file(p, IF Exists(fs, p) THEN fs[p].streams ELSE <<>>, probe_ok /\ Exists(fs, p))
                       EXCEPT !.output_filename = old.output_filename, !.title = old.title]
              shown == refresh_state(new_media_file_state, burn_combo_items[i], settings.filename_template)
          IN /\ media_files' = [media_files EXCEPT ![i] = shown.m]
             /\ burn_combo_items' = [burn_combo_items EXCEPT ![i] = shown.items]
    /\ ret' = [fn |-> "refresh_list_item", value |-> "None"]
    /\ trace' = <<>>
    /\ UNCHANGED <<fs, settings, app_config, platform, runs>>
    /\ UNCHANGED <<classifyVars, poolVars, transferVars, task, status_bar, cancel_requested>>

\* Dashboard.show_conversion_plan_preview (dashboard.py:1092-1100) and
\* MediaFileItemWidget.show_conversion_preview (788-795) on a list item: the
\* record is updated from the item's controls, then its preview is rendered.
ShowConversionPreview ==
    /\ task = "idle"
    /\ \E i \in 1..Len(media_files) : \E ui \in UiInputs(media_files[i], burn_combo_items[i]) :
          LET p == generate_preview(update_media_file_from_ui(media_files[i], ui), settings)
          IN /\ media_files' = [media_files EXCEPT ![i] = p.m]
             /\ ret' = [fn |-> "generate_preview", value |-> p.text]
             /\ trace' = <<Ev("preview", i, media_files[i].source_path, media_files[i].source_path, TRUE)>>
    /\ UNCHANGED <<fs, settings, app_config, platform, runs>>
    /\ UNCHANGED <<classifyVars, poolVars, transferVars, dashVars>>

\* two files of the same name in different sub-folders of one source root,
\* in scan order
SameNameScanOrder ==
    << Path(<<"E:", "Movies", "Film">>, <<"movie", ".mkv">>),
       Path(<<"E:", "Movies", "Extras">>, <<"movie", ".mkv">>) >>

SameNameBatches ==
    { [i \in 1..n |-> MediaFile(SameNameScanOrder[i], None)] : n \in 1..Len(SameNameScanOrder) }

\* a session over one source root whose sub-folders hold files of one name
InitSameName ==
    /\ media_files \in SameNameBatches
    /\ fs = SourceFs({ media_files[i].source_path : i \in 1..Len(media_files) })
    /\ dirs = UNION { Ancestors(media_files[i].source_path.dir) : i \in 1..Len(media_files) }
    /\ move_log_file = [valid |-> FALSE, data |-> EmptyLog]
    /\ settings = [ dry_run |-> FALSE, delete_source_on_success |-> FALSE,
                    filename_template |-> <<"{title}">>, output_directory |-> <<".", "converted">> ]
    /\ app_config = [ DRY_RUN |-> FALSE ]
    /\ platform \in {"win32", "linux"}
    /\ transfer_config \in [ destination_base : {DestinationBase},
                             source_root_folders : {SourceRootFolders},
                             dry_run : BOOLEAN ]
    /\ transfers = 0
    /\ trace = <<>>
    /\ ret = [fn |-> "none", value |-> "unset"]
    /\ runs = 0

\* files whose converted file takes the place of the source: an .mp4 file
\* in a sub-folder of a root, an .mkv file beside it, and an .mp4 file in a
\* root itself
EmptyFolderScanOrder ==
    << Path(<<"E:", "Movies", "Film">>, <<"clip", ".mp4">>),
       Path(<<"E:", "Movies", "Film">>, <<"movie", ".mkv">>),
       Path(<<"E:", "TV">>, <<"clip", ".mp4">>) >>

EmptyFolderIndexSeqs(n) ==
    { s \in [1..n -> 1..Len(EmptyFolderScanOrder)] : \A i, j \in 1..n : i < j => s[i] < s[j] }

EmptyFolderBatches ==
    UNION { { [i \in 1..n |-> MediaFile(EmptyFolderScanOrder[s[i]], None)] :
                s \in EmptyFolderIndexSeqs(n) } : n \in 1..MaxFiles }

InitEmptyFolders ==
    /\ media_files \in EmptyFolderBatches
    /\ fs = SourceFs({ media_files[i].source_path : i \in 1..Len(media_files) })
    /\ dirs = UNION { Ancestors(media_files[i].source_path.dir) : i \in 1..Len(media_files) }
    /\ move_log_file = [valid |-> FALSE, data |-> EmptyLog]
    /\ settings = [ dry_run |-> FALSE, delete_source_on_success |-> FALSE,
                    filename_template |-> <<"{title}">>, output_directory |-> <<".", "converted">> ]
    /\ app_config = [ DRY_RUN |-> FALSE ]
    /\ platform \in {"win32", "linux"}
    /\ transfer_config \in [ destination_base : {DestinationBase},
                             source_root_folders : {SourceRootFolders},
                             dry_run : BOOLEAN ]
    /\ transfers = 0
    /\ trace = <<>>
    /\ ret = [fn |-> "none", value |-> "unset"]
    /\ runs = 0

(***************************************************************************)
(* Gemini.convert_all: the worker pool and the conversion log              *)
(***************************************************************************)
\* clean_filename (Gemini.py:273-309): the release tags are removed from the
\* stem, the remaining words are joined by "_"; an empty result falls back
\* to the original stem.
gemini_cleaned_path(file_path) ==
    LET kept == SelectSeq(Stem(file_path.name), LAMBDA t : t \notin CLEANUP_TERMS)
        words == SelectSeq(kept, LAMBDA t : t \notin {" ", "."})
        cleaned_stem == IF words = <<>> THEN Stem(file_path.name) ELSE JoinUnderscore(words)
    IN Path(file_path.dir, cleaned_stem \o Suffix(file_path.name))

\* the rename of clean_filename (Gemini.py:302-309): the new path when the
\* rename succeeded, the original path when it raised OSError
gemini_clean_filename(file_path, f, io_fail) ==
    LET new_path == gemini_cleaned_path(file_path)
        rn == Rename(f, file_path, new_path, io_fail)
    IN IF new_path # file_path /\ rn.ok THEN [path |-> new_path, fs |-> rn.fs]
       ELSE [path |-> file_path, fs |-> f]

\* Step 1 of convert_all (Gemini.py:711-715): every file found is cleaned, in
\* order, each on the file system the previous rename left
RECURSIVE CleanAll(_, _, _, _)
CleanAll(files, f, i, io_fails) ==
    IF i > Len(files) THEN [paths |-> <<>>, fs |-> f]
    ELSE LET c == gemini_clean_filename(files[i], f, io_fails[i])
             rest == CleanAll(files, c.fs, i + 1, io_fails)
         IN [rest EXCEPT !.paths = <<c.path>> \o rest.paths]

\* lines 723-735 of convert_all: the entry the main thread stores for a
\* collected future.  Nothing is stored while logging is disabled.
collect_result_Dropping(log, original_file_path, result_data) == log

collect_result(log, original_file_path, result_data) ==
    IF ~app_config.LOGGING_ENABLED THEN log
    ELSE (original_file_path :>
              (IF result_data = "None" THEN "error"
               ELSE IF result_data = "dry_run" THEN "dry_run_success"
               ELSE "converted")) @@ log

\* the *.mkv files of the source folder a run of the script finds
PoolScanOrder ==
    << Path(SourceDir, <<"movie", ".mkv">>),
       Path(SourceDir, <<"movie", " ", "1080p", ".mkv">>),
       Path(SourceDir, <<"clip", " ", "720p", ".mkv">>) >>

\* ThreadPoolExecutor(max_workers=AppConfig.MAX_WORKERS)
MaxWorkers == 2

\* the encoder outcomes of a pool worker
PoolEncOutcomes == {"ok", "fail"}

Running == { k \in 1..Len(pool) : pool[k].pc = "running" }

\* the script is started on a source folder; the log dictionary is empty and
\* no log file has been written
InitPool ==
    /\ \E srcs \in SUBSET { PoolScanOrder[i] : i \in 1..Len(PoolScanOrder) } :
          /\ Cardinality(srcs) \in 1..MaxFiles
          /\ fs = SourceFs(srcs)
    /\ media_files = <<>>
    /\ settings = <<>>
    /\ app_config \in [ DRY_RUN : BOOLEAN, LOGGING_ENABLED : BOOLEAN ]
    /\ platform \in {"win32", "linux"}
    /\ trace = <<>>
    /\ ret = [fn |-> "none", value |-> "unset"]
    /\ runs = 0
    /\ pool = <<>>
    /\ collected = {}
    /\ conversion_log = EmptyLog
    /\ log_file_json = [valid |-> FALSE, data |-> EmptyLog]
    /\ log_lock = "free"
    /\ main_pc = "start"

\* convert_all up to the submission of the futures (Gemini.py:705-720): the
\* files are listed in the order rglob yields them, cleaned, and one future
\* per entry of cleaned_files_for_conversion is submitted.
ConvertAllSubmit ==
    /\ main_pc = "start"
    /\ \E all_files_mkv \in [1..Cardinality(MkvFiles(fs)) -> MkvFiles(fs)],
          io_fails \in [1..Cardinality(MkvFiles(fs)) -> BOOLEAN] :
          /\ \A i, j \in DOMAIN all_files_mkv : i # j => all_files_mkv[i] # all_files_mkv[j]
          /\ \E c \in {CleanAll(all_files_mkv, fs, 1, io_fails)} :
                /\ fs' = c.fs
                /\ pool' = [k \in 1..Len(c.paths) |->
                               [input |-> c.paths[k], pc |-> "queued", result |-> "unset"]]
    /\ main_pc' = "collect"
    /\ ret' = [fn |-> "Gemini.convert_all", value |-> "unset"]
    /\ UNCHANGED <<media_files, settings, app_config, platform, trace, runs,
                   collected, conversion_log, log_file_json, log_lock>>
    /\ UNCHANGED <<classifyVars, transferVars, dashVars>>

\* a pool thread takes a queued future and runs convert_to_mp4 up to the
\* encoder (Gemini.py:450-534)
WorkerStart ==
    /\ \E k \in 1..Len(pool) :
          /\ pool[k].pc = "queued"
          /\ Cardinality(Running) < MaxWorkers
          /\ LET early == gemini_early_return(pool[k].input, fs)
             IN pool' = [pool EXCEPT ![k] =
                            IF early = "encode" THEN [@ EXCEPT !.pc = "running"]
                            ELSE [@ EXCEPT !.pc = "done", !.result = early]]
    /\ UNCHANGED <<convertVars, collected, conversion_log, log_file_json, log_lock, main_pc>>
    /\ UNCHANGED <<classifyVars, transferVars, dashVars>>

\* the encoder of a worker ends and convert_to_mp4 returns (Gemini.py:534-589)
WorkerFinish ==
    /\ \E k \in Running, enc \in PoolEncOutcomes, io_fail \in BOOLEAN :
          \E r \in {gemini_encode(pool[k].input, fs, <<>>, enc, io_fail, FALSE)} :
             /\ fs' = r.fs
             /\ trace' = r.tr
             /\ pool' = [pool EXCEPT ![k] = [@ EXCEPT !.pc = "done", !.result = r.ret]]
    /\ UNCHANGED <<media_files, settings, app_config, platform, ret, runs>>
    /\ UNCHANGED <<collected, conversion_log, log_file_json, log_lock, main_pc>>
    /\ UNCHANGED <<classifyVars, transferVars, dashVars>>

\* the main thread takes the next completed future and stores its result in
\* conversion_log (Gemini.py:721-735)
CollectResult ==
    /\ main_pc = "collect"
    /\ \E k \in (1..Len(pool)) \ collected :
          /\ pool[k].pc = "done"
          /\ conversion_log' = collect_result(conversion_log, pool[k].input, pool[k].result)
          /\ collected' = collected \cup {k}
    /\ main_pc' = "save"
    /\ UNCHANGED <<convertVars, pool, log_file_json, log_lock>>
    /\ UNCHANGED <<classifyVars, transferVars, dashVars>>

\* save_log up to the lock (Gemini.py:103-105): it returns at once while
\* logging is disabled, else it takes conversion_log_lock
SaveLogAcquire ==
    /\ main_pc = "save"
    /\ IF ~app_config.LOGGING_ENABLED
       THEN /\ main_pc' = IF collected = 1..Len(pool) THEN "done" ELSE "collect"
            /\ UNCHANGED log_lock
       ELSE /\ log_lock = "free"
            /\ log_lock' = "main"
            /\ main_pc' = "dump"
    /\ UNCHANGED <<convertVars, pool, collected, conversion_log, log_file_json>>
    /\ UNCHANGED <<classifyVars, transferVars, dashVars>>

\* save_log under the lock (Gemini.py:106-112): the file is opened for
\* writing and the dictionary dumped; an exception is logged.  A failure of
\* open leaves the file as it was, a failure of the dump leaves it truncated.
SaveLogDump ==
    /\ main_pc = "dump"
    /\ \E outcome \in {"ok", "open_fails", "dump_fails"} :
          log_file_json' = IF outcome = "ok" THEN [valid |-> TRUE, data |-> conversion_log]
                           ELSE IF outcome = "open_fails" THEN log_file_json
                           ELSE [valid |-> FALSE, data |-> EmptyLog]
    /\ log_lock' = "free"
    /\ main_pc' = IF collected = 1..Len(pool) THEN "done" ELSE "collect"
    /\ UNCHANGED <<convertVars, pool, collected, conversion_log>>
    /\ UNCHANGED <<classifyVars, transferVars, dashVars>>

(***************************************************************************)
(* convert.py: _build_ffmpeg_command                                       *)
(***************************************************************************)
\* str(n) for the small numbers that occur in a command
IntStr(n) == <<"0", "1", "2", "3", "4", "5", "6", "7", "8", "9">>[n + 1]

\* str(path), as the tokens of the directory followed by those of the name
PathStr(p) == p.dir \o p.name

\* the most subtitle streams a probed file has
MaxSubs == 2

\* codec_name of a subtitle stream: one text codec, PGS and VobSub
SubCodecs == {"subrip", "hdmv_pgs_subtitle", "dvd_subtitle"}

\* convert.py:154
TEXT_SUB_CODECS == {"subrip", "ass", "mov_text", "ssa"}

\* what ffprobe -select_streams s reports: the subtitle streams in container
\* order; the container index of the first is 2 (one audio stream before it)
\* or 3 (two), the following streams have the next indices
CmdStreamLayouts ==
    UNION { { [k \in 1..n |-> [index |-> first + k - 1, codec_name |-> codecs[k],
                               language |-> tags[k].language, is_forced |-> tags[k].is_forced]] :
                first \in {2, 3},
                codecs \in [1..n -> SubCodecs],
                tags \in [1..n -> { [language |-> "eng", is_forced |-> TRUE],
                                    [language |-> "spa", is_forced |-> FALSE] }] } :
            n \in 0..MaxSubs }

\* the SubtitleTrack objects scan_file builds (subtitlesmkv.py:79-93): index
\* is the stream's container index, ffmpeg_index the position enumerate
\* gives, counted from 0
scan_subtitle_tracks(streams) ==
    [k \in 1..Len(streams) |->
        [index |-> streams[k].index, ffmpeg_index |-> k - 1,
         language |-> streams[k].language, codec |-> streams[k].codec_name,
         is_forced |-> streams[k].is_forced, is_text_based |-> FALSE, action |-> "ignore"]]

\* scan_file with the codec of every track kept (subtitlesmkv.py:49-104)
scan_file_codecs(file_path, streams) ==
    LET tracks == scan_subtitle_tracks(streams)
        forced == { k \in 1..Len(tracks) : tracks[k].language = "eng" /\ tracks[k].is_forced }
        first == CHOOSE k \in forced : \A j \in forced : k <= j
        media == [MediaFile(file_path, None) EXCEPT !.status = "Ready"]
    IN IF forced = {} THEN [media EXCEPT !.subtitle_tracks = tracks]
       ELSE [media EXCEPT !.subtitle_tracks = [tracks EXCEPT ![first].action = "burn"],
                          !.burned_subtitle = Some(first)]

\* the soft-copy loop (convert.py:149-162): the tracks with action "copy"
\* in track order, each text one mapped by its ffmpeg_index and given the
\* next output subtitle index
RECURSIVE soft_copy_args(_, _, _)
soft_copy_args_ByAction(tracks, k, output_sub_index) ==
    IF k > Len(tracks) THEN <<>>
    ELSE IF tracks[k].action = "copy"
    THEN << <<"-map">>, <<"0:s:", IntStr(tracks[k].ffmpeg_index)>>,
            <<"-c:s:", IntStr(output_sub_index)>>, <<"mov_text">> >>
         \o soft_copy_args(tracks, k + 1, output_sub_index + 1)
    ELSE soft_copy_args(tracks, k + 1, output_sub_index)

soft_copy_args(tracks, k, output_sub_index) ==
    IF k > Len(tracks) THEN <<>>
    ELSE IF tracks[k].action = "copy" /\ tracks[k].codec \in TEXT_SUB_CODECS
    THEN << <<"-map">>, <<"0:s:", IntStr(tracks[k].ffmpeg_index)>>,
            <<"-c:s:", IntStr(output_sub_index)>>, <<"mov_text">> >>
         \o soft_copy_args(tracks, k + 1, output_sub_index + 1)
    ELSE soft_copy_args(tracks, k + 1, output_sub_index)

\* _build_ffmpeg_command(media, settings) (convert.py:110-172): the argument
\* list, every argument as its tokens
build_ffmpeg_command(media, s) ==
    LET burn == ~IsNone(media.burned_subtitle)
        base == << <<"ffmpeg">>, <<"-y">>, <<"-i">>, PathStr(media.source_path) >>
        vf == IF burn
              THEN << <<"-vf">>,
                      <<"subtitles=">> \o PathStr(media.source_path)
                         \o <<":stream_index=",
                              IntStr(media.subtitle_tracks[Val(media.burned_subtitle)].index)>> >>
              ELSE <<>>
        vcodec == IF burn
                  THEN IF s.use_nvenc
                       THEN << <<"-c:v">>, <<"hevc_nvenc">>, <<"-preset">>, <<"p5">>,
                               <<"-rc:v">>, <<"vbr_hq">>, <<"-cq">>, <<"20">>,
                               <<"-tier">>, <<"high">> >>
                       ELSE << <<"-c:v">>, <<"libx265">>, <<"-crf">>, <<s.crf>>,
                               <<"-preset">>, <<"slow">> >>
                  ELSE << <<"-c:v">>, <<"copy">> >>
        audio == << <<"-map">>, <<"0:a">>, <<"-c:a">>, <<s.audio_codec>>,
                    <<"-b:a">>, <<s.audio_bitrate>> >>
        subs == soft_copy_args(media.subtitle_tracks, 1, 0)
        tail == << <<"-map">>, <<"0:v">>, <<"-map_metadata">>, <<"0">>,
                   s.output_directory \o media.output_filename >>
    IN base \o vf \o vcodec \o audio \o subs \o tail

\* the value of the option opt in a command: the arguments that follow an
\* occurrence of opt
OptionValues(cmd, opt) == { cmd[i + 1] : i \in { j \in 1..(Len(cmd) - 1) : cmd[j] = opt } }

\* the files the command builder is applied to
CmdSource == Path(SourceDir, <<"movie", ".mkv">>)

InitCmd ==
    /\ media_files = <<>>
    /\ fs = SourceFs({CmdSource})
    /\ settings \in [ use_nvenc : BOOLEAN, crf : {"23"}, audio_codec : {"ac3"},
                      audio_bitrate : {"640k"}, dry_run : {TRUE},
                      output_directory : {<<".", "converted">>} ]
    /\ app_config = [ DRY_RUN |-> FALSE ]
    /\ platform = "linux"
    /\ trace = <<>>
    /\ ret = [fn |-> "none", value |-> <<>>]
    /\ runs = 0

\* the file is probed: scan_file builds the tracks, the codec fields are
\* those the probe of the audio and video streams reports
ScanFileForCommand ==
    /\ media_files = <<>>
    /\ \E streams \in CmdStreamLayouts,
          acodec \in {Some(S_aac), Some(<<"d","t","s">>)},
          channels \in {2, 6},
          vcodec \in {Some(S_h264), Some(<<"m","p","e","g","4">>)} :
          media_files' = << [scan_file_codecs(CmdSource, streams) EXCEPT
                                !.audio_codec = acodec, !.audio_channels = channels,
                                !.video_codec = vcodec] >>
    /\ UNCHANGED <<fs, settings, app_config, platform, trace, ret, runs>>
    /\ UNCHANGED <<classifyVars, poolVars, transferVars, dashVars>>

\* before the conversion the caller sets the action of every track and the
\* burn-in track, as the scenarios of convert.py:198-211 do
SelectTrackActions ==
    /\ media_files # <<>>
    /\ ret.fn = "none"
    /\ LET m == media_files[1]
           n == Len(m.subtitle_tracks)
       IN \E burned \in {None} \cup { Some(k) : k \in 1..n }, copies \in SUBSET (1..n) :
             media_files' = << [m EXCEPT
                 !.burned_subtitle = burned,
                 !.subtitle_tracks =
                     [k \in 1..n |->
                         [m.subtitle_tracks[k] EXCEPT
                             !.action = IF burned = Some(k) THEN "burn"
                                        ELSE IF k \in copies THEN "copy" ELSE "ignore"]]] >>
    /\ UNCHANGED <<fs, settings, app_config, platform, trace, ret, runs>>
    /\ UNCHANGED <<classifyVars, poolVars, transferVars, dashVars>>

\* convert_media_file builds the command for the file (convert.py:70-72)
BuildFfmpegCommand ==
    /\ media_files # <<>>
    /\ ret' = [fn |-> "_build_ffmpeg_command",
               value |-> build_ffmpeg_command(media_files[1], settings)]
    /\ UNCHANGED <<fs, media_files, settings, app_config, platform, trace, runs>>
    /\ UNCHANGED <<classifyVars, poolVars, transferVars, dashVars>>

(***************************************************************************)
(* subtitlesmkv.py: scan_directory and the failures of the probe           *)
(***************************************************************************)
\* what running ffprobe and parsing its output can do: give the subtitle
\* streams, or raise (the tool is missing, it exits non-zero, its output is
\* not JSON, its output cannot be decoded)
ProbeExceptions ==
    {"FileNotFoundError", "CalledProcessError", "JSONDecodeError", "UnicodeDecodeError"}

ProbeOutcomes ==
    { [exc |-> "none", streams |-> s] : s \in StreamLayouts }
       \cup { [exc |-> e, streams |-> <<>>] : e \in ProbeExceptions }

\* the except clauses of scan_file (subtitlesmkv.py:110-122), in order; the
\* last one takes every other Exception
probe_error_message(exc) ==
    CASE exc = "FileNotFoundError" -> <<"ffprobe command not found">>
      [] exc = "CalledProcessError" -> <<"ffprobe failed with exit code">>
      [] exc = "JSONDecodeError" -> <<"Failed to parse ffprobe's JSON output.">>
      [] OTHER -> <<"An unexpected error occurred: ">>

\* scan_file(file_path) under a given behaviour of the probe
\* (subtitlesmkv.py:36-124): the record it returns, or the exception that
\* leaves it
scan_file_probe_NoCatchAll(file_path, probe) ==
    IF probe.exc = "none"
    THEN [raised |-> FALSE, m |-> scan_file(file_path, probe.streams, TRUE)]
    ELSE IF probe.exc \in {"FileNotFoundError", "CalledProcessError", "JSONDecodeError"}
    THEN [raised |-> FALSE,
          m |-> [MediaFile(file_path, None) EXCEPT
                    !.status = "Error",
                    !.error_message = Some(probe_error_message(probe.exc))]]
    ELSE [raised |-> TRUE, m |-> MediaFile(file_path, None)]

scan_file_probe(file_path, probe) ==
    IF probe.exc = "none"
    THEN [raised |-> FALSE, m |-> scan_file(file_path, probe.streams, TRUE)]
    ELSE [raised |-> FALSE,
          m |-> [MediaFile(file_path, None) EXCEPT
                    !.status = "Error",
                    !.error_message = Some(probe_error_message(probe.exc))]]

\* scan_directory(directory_path) (subtitlesmkv.py:16-34): every *.mkv file
\* found is scanned in turn and its record appended; an exception leaving
\* scan_file would leave scan_directory too
RECURSIVE scan_directory(_, _, _)
scan_directory(files, probes, i) ==
    IF i > Len(files) THEN [raised |-> FALSE, ms |-> <<>>, tr |-> <<>>]
    ELSE LET r == scan_file_probe(files[i], probes[i])
             ev == Ev("probe", i, files[i], files[i], probes[i].exc = "none")
         IN IF r.raised THEN [raised |-> TRUE, ms |-> <<>>, tr |-> <<ev>>]
            ELSE LET rest == scan_directory(files, probes, i + 1)
                 IN [rest EXCEPT !.ms = <<r.m>> \o rest.ms, !.tr = <<ev>> \o rest.tr]

\* a folder with some *.mkv files; nothing has been scanned
InitScan ==
    /\ \E srcs \in SUBSET { PoolScanOrder[i] : i \in 1..Len(PoolScanOrder) } :
          /\ Cardinality(srcs) \in 1..MaxFiles
          /\ fs = SourceFs(srcs)
    /\ media_files = <<>>
    /\ settings = <<>>
    /\ app_config = <<>>
    /\ platform = "linux"
    /\ trace = <<>>
    /\ ret = [fn |-> "none", value |-> "unset"]
    /\ runs = 0

\* subtitlesmkv.scan_directory(directory_path), rglob yielding the files in
\* directory order
ScanDirectory ==
    /\ runs < MaxRuns
    /\ \E files \in {SelectSeq(PoolScanOrder, LAMBDA p : p \in MkvFiles(fs))},
          probes \in [1..Cardinality(MkvFiles(fs)) -> ProbeOutcomes] :
          /\ \E r \in {scan_directory(files, probes, 1)} :
                /\ media_files' = r.ms
                /\ trace' = r.tr
                /\ ret' = [fn |-> "scan_directory",
                           value |-> IF r.raised THEN "raised" ELSE "returned"]
    /\ runs' = runs + 1
    /\ UNCHANGED <<fs, settings, app_config, platform>>
    /\ UNCHANGED <<classifyVars, poolVars, transferVars, dashVars>>

IdleClassify ==
    /\ audio_codec = None /\ audio_channels = 0 /\ video_codec = None
    /\ burned_subtitle = None /\ classify_result = "unset"

IdleConvert ==
    /\ fs = <<>> /\ media_files = <<>> /\ settings = <<>> /\ app_config = <<>>
    /\ platform = "linux" /\ trace = <<>> /\ ret = <<>> /\ runs = 0

IdleTransfer ==
    /\ dirs = {} /\ move_log_file = <<>> /\ transfer_config = <<>> /\ transfers = 0

IdleDash ==
    /\ task = "idle" /\ status_bar = "" /\ cancel_requested = FALSE
    /\ burn_combo_items = <<>>

IdlePool ==
    /\ pool = <<>> /\ collected = {} /\ conversion_log = <<>>
    /\ log_file_json = <<>> /\ log_lock = "free" /\ main_pc = "idle"

(***************************************************************************)
(* Specifications                                                          *)
(***************************************************************************)
NextClassify == Classify

\* the classifier applied to every input
InitSpecClassify == InitClassify /\ IdleConvert /\ IdleTransfer /\ IdleDash /\ IdlePool
SpecClassify == InitSpecClassify /\ [][NextClassify]_vars

NextConvert ==
    \/ RunBatchBasicConversion
    \/ ConvertBatch

\* the dashboard's conversion paths over one batch of scanned files
InitSpecConvert == InitConvert /\ IdleClassify /\ IdleTransfer /\ IdleDash /\ IdlePool
SpecConvert == InitSpecConvert /\ [][NextConvert]_vars

NextScripts ==
    \/ GeminiConvertToMp4
    \/ CamConvertToMp4

NextMkv == RemoveSubtitleTracks

\* the subtitle-track remover applied repeatedly to one container
InitSpecMkv == InitMkv /\ IdleClassify /\ IdleTransfer /\ IdleDash /\ IdlePool
SpecMkv == InitSpecMkv /\ [][NextMkv]_vars

\* the stand-alone conversion scripts over one source folder
InitSpecScripts == InitScripts /\ IdleClassify /\ IdleTransfer /\ IdleDash /\ IdlePool
SpecScripts == InitSpecScripts /\ [][NextScripts]_vars

NextTransfer == RunBatchBasicConversion \/ MoveConvertedFiles

InitSpecTransfer == InitTransfer /\ IdleClassify /\ IdleDash /\ IdlePool

SpecTransfer == InitSpecTransfer /\ [][NextTransfer]_vars

\* conversion and transfer of a batch whose files share a name
NextSameName == RunBatchBasicConversion \/ MoveConvertedFiles

InitSpecSameName == InitSameName /\ IdleClassify /\ IdleDash /\ IdlePool

SpecSameName == InitSpecSameName /\ [][NextSameName]_vars

NextPool ==
    \/ ConvertAllSubmit
    \/ WorkerStart
    \/ WorkerFinish
    \/ CollectResult
    \/ SaveLogAcquire
    \/ SaveLogDump

\* one run of Gemini.convert_all over a source folder
InitSpecPool == InitPool /\ IdleClassify /\ IdleTransfer /\ IdleDash

SpecPool == InitSpecPool /\ [][NextPool]_vars

NextCmd ==
    \/ ScanFileForCommand
    \/ SelectTrackActions
    \/ BuildFfmpegCommand

\* the command builder of convert.py applied to one probed file
InitSpecCmd == InitCmd /\ IdleClassify /\ IdleTransfer /\ IdleDash /\ IdlePool

SpecCmd == InitSpecCmd /\ [][NextCmd]_vars

NextScan == ScanDirectory

\* scans of one folder
InitSpecScan == InitScan /\ IdleClassify /\ IdleTransfer /\ IdleDash /\ IdlePool

SpecScan == InitSpecScan /\ [][NextScan]_vars

NextEmptyFolders == RunBatchBasicConversion \/ MoveConvertedFiles

\* conversion and transfer of files whose folders the transfer may empty
InitSpecEmptyFolders == InitEmptyFolders /\ IdleClassify /\ IdleDash /\ IdlePool

SpecEmptyFolders == InitSpecEmptyFolders /\ [][NextEmptyFolders]_vars

NextDash ==
    \/ StartConversion
    \/ CancelTask
    \/ RunCombinedConversion
    \/ RefreshListItem

InitSpecDash == InitDash /\ IdleClassify /\ IdleTransfer /\ IdlePool

SpecDash == InitSpecDash /\ [][NextDash]_vars

\* the dashboard between tasks: plans are previewed and items refreshed
NextPreview ==
    \/ ShowConversionPreview
    \/ RefreshListItem

SpecPreview == InitSpecDash /\ [][NextPreview]_vars

(***************************************************************************)
(* Properties                                                              *)
(***************************************************************************)
Classified == classify_result # "unset"

\* the accepted-for-copy codec names, matched without regard to case
AudioAccepted(o) ==
    (~IsNone(o)) /\ Lower(Val(o)) \in { <<"a","a","c">>, <<"a","c","3">>, <<"e","a","c","3">> }
VideoAccepted(o) ==
    (~IsNone(o)) /\ Lower(Val(o)) \in { <<"h","2","6","4">>, <<"h","e","v","c">> }

\* C1: for every MediaFile whose burned_subtitle is set, classify() returns
\* "convert", whatever the audio and video codecs are.
C1_BurnedAlwaysConvert ==
    (Classified /\ ~IsNone(burned_subtitle)) => classify_result = "convert"

\* C1 witness: a burn-in subtitle on a file whose codecs are all accepted
C1_Witness ==
    /\ Classified /\ ~IsNone(burned_subtitle)
    /\ AudioAccepted(audio_codec) /\ audio_channels >= 6 /\ VideoAccepted(video_codec)
    /\ classify_result = "convert"

\* C2: with no burned subtitle, an audio codec in {aac, ac3, eac3} with at
\* least 6 channels and a video codec in {h264, hevc}, classify() returns "remux".
C2_AcceptedCodecsRemux ==
    ( /\ Classified /\ IsNone(burned_subtitle)
      /\ audio_codec \in { Some(<<"a","a","c">>), Some(<<"a","c","3">>), Some(<<"e","a","c","3">>) }
      /\ audio_channels >= 6
      /\ video_codec \in { Some(<<"h","2","6","4">>), Some(<<"h","e","v","c">>) } )
    => classify_result = "remux"

\* C2 witness: an eac3 / hevc file with 6 channels was classified remux
C2_Witness ==
    /\ Classified /\ IsNone(burned_subtitle)
    /\ audio_codec = Some(<<"e","a","c","3">>) /\ audio_channels = 6
    /\ video_codec = Some(<<"h","e","v","c">>)
    /\ classify_result = "remux"

\* C3: with no burned subtitle, classify() returns "convert" whenever the
\* audio codec is not one of aac/ac3/eac3 or the video codec is not one of
\* h264/hevc, a missing codec value included.
C3_UnacceptedAlwaysConvert ==
    ( /\ Classified /\ IsNone(burned_subtitle)
      /\ (~AudioAccepted(audio_codec) \/ ~VideoAccepted(video_codec)) )
    => classify_result = "convert"

\* the entries of the call trace that belong to the i-th file
IsTempPath(p) ==
    Len(p.name) >= 2 /\ SubSeq(p.name, Len(p.name) - 1, Len(p.name)) = <<".temp", ".mp4">>
EncoderRanFor(i) == \E k \in 1..Len(trace) : trace[k].op = "ffmpeg" /\ trace[k].i = i
LastCallConverts ==
    ret.fn \in {"run_batch_basic_conversion", "convert_batch"}

\* C4: in every conversion path, when the final output path exists before
\* work on a file begins, the file is marked Skipped (Exists) and no encoder
\* is invoked for it.
C4_SkipWhenOutputExists ==
    LastCallConverts =>
        \A k \in 1..Len(trace) :
            (trace[k].op = "begin" /\ trace[k].flag) =>
                /\ media_files[trace[k].i].status = "Skipped (Exists)"
                /\ ~EncoderRanFor(trace[k].i)

\* C5: every encoder invocation writes to a *.temp.mp4 path; the final
\* output path is never the encoder's output.
C5_EncoderWritesTempOnly ==
    \A k \in 1..Len(trace) :
        trace[k].op = "ffmpeg" =>
            /\ IsTempPath(trace[k].dst)
            /\ \A b \in 1..Len(trace) :
                  (trace[b].op = "begin" /\ trace[b].i = trace[k].i) => trace[b].dst # trace[k].dst

\* C6: after run_basic_conversion or Gemini's convert_to_mp4 returns, on any
\* path, the *.temp.mp4 file of that run does not exist.
C6_NoTempSurvives ==
    ret.fn \in {"run_batch_basic_conversion", "Gemini.convert_to_mp4"} =>
        \A k \in 1..Len(trace) :
            trace[k].op = "begin" => ~Exists(fs, with_suffix(trace[k].src, TempSuffix))

\* C7: the temp file is renamed to the final path only after the encoder
\* succeeded and the temp file was found non-empty; the source is deleted
\* only after that rename and only when delete_source_on_success is set.
C7_CompletionOrdering ==
    \A k \in 1..Len(trace) :
        /\ trace[k].op = "rename" =>
              /\ trace[k].flag
              /\ \E j \in 1..(k - 1) :
                    trace[j].op = "ffmpeg" /\ trace[j].i = trace[k].i /\ trace[j].flag
        /\ trace[k].op = "unlink_source" =>
              /\ settings.delete_source_on_success
              /\ \E j \in 1..(k - 1) : trace[j].op = "rename" /\ trace[j].i = trace[k].i

\* C8: when the encoder fails, the file's status is an Error status with an
\* error message, no output of the failed run is left on disk, and the
\* source file is untouched.
C8_EncoderFailureCleansUp ==
    LastCallConverts =>
        \A k \in 1..Len(trace) :
            (trace[k].op = "ffmpeg" /\ ~trace[k].flag) =>
                LET m == media_files[trace[k].i]
                IN /\ m.status \in {"Error", "Error (Basic)"}
                   /\ ~IsNone(m.error_message)
                   /\ \A p \in DOMAIN fs : ~(fs[p].kind = "partial" /\ fs[p].from = m.source_path)
                   /\ Exists(fs, m.source_path)
                   /\ fs[m.source_path] = [kind |-> "orig", from |-> m.source_path]

\* C9: after remove_subtitle_tracks returns, on any path, the original path
\* holds the untouched original or the complete replacement, and no
\* *_modified.mkv file remains.
C9_OriginalOrReplacement ==
    ret.fn = "remove_subtitle_tracks" =>
        \A k \in 1..Len(trace) :
            (trace[k].op = "begin" /\ trace[k].flag) =>
                /\ Exists(fs, trace[k].src)
                /\ fs[trace[k].src].kind \in {"orig", "remuxed"}
                /\ ~Exists(fs, trace[k].dst)

\* C10: move_converted_files is a no-op for a file whose source path the
\* transfer log already records as "Moved": the file is not moved, its log
\* entry is not rewritten and no error status is set on it.
C10_LoggedMovedIsNoOp ==
    ret.fn = "move_converted_files" =>
        \A b \in 1..Len(trace) :
            (trace[b].op = "begin" /\ trace[b].flag) =>
                /\ \A k \in 1..Len(trace) :
                       trace[k].i = trace[b].i => trace[k].op \notin {"move", "log_set"}
                /\ media_files[trace[b].i].status # "Transfer Error"

\* C11: when a file's source path lies under none of the configured source
\* roots, move_converted_files sets Transfer Error on it, moves nothing for
\* it and leaves the converted file where it is.
C11_NoRootIsTransferError ==
    ret.fn = "move_converted_files" =>
        \A k \in 1..Len(trace) :
            trace[k].op = "no_root" =>
                /\ media_files[trace[k].i].status = "Transfer Error"
                /\ \A j \in 1..Len(trace) : trace[j].i = trace[k].i => trace[j].op # "move"
                /\ Exists(fs, trace[k].dst)

\* C12: the transfer log is crash-safe: whatever happens during a write of
\* the log, an entry that could be read from the log file before the call can
\* still be read from it afterwards.
C12_LogNeverLosesEntries ==
    [][ \A k \in DOMAIN read_move_log(move_log_file) :
            k \in DOMAIN read_move_log(move_log_file') ]_vars

\* C13: a failure on one file never aborts the batch: move_converted_files
\* returns normally and has worked on every file it was given.
C13_BatchNeverAborts ==
    ret.fn = "move_converted_files" =>
        /\ ret.value = "None"
        /\ \A i \in 1..Len(media_files) :
               \E k \in 1..Len(trace) : trace[k].op = "begin" /\ trace[k].i = i

\* the position of a status along
\* Ready -> Queued -> working -> conversion result -> transfer result
StatusRank(s) ==
    CASE s \in {"Pending", "Ready"} -> 1
      [] s = "Queued" -> 2
      [] s \in {"Remuxing", "Converting", "Encoding"} -> 3
      [] s \in {"Transferred", "Transfer Error", "Transferred (Dry Run)"} -> 5
      [] OTHER -> 4
IsErrorStatus(s) == s \in {"Error", "Error (Basic)"}

\* C14: the status of a record only moves forward along Ready -> Queued ->
\* working -> conversion result -> transfer result, and a record whose status
\* is an Error status keeps it through every later conversion or transfer.
C14_StatusOneDirectional ==
    [][ \A i \in 1..Len(media_files) :
            /\ StatusRank(media_files'[i].status) >= StatusRank(media_files[i].status)
            /\ IsErrorStatus(media_files[i].status) =>
                   media_files'[i].status = media_files[i].status ]_vars

\* C15: in every record, burned_subtitle, when set, is one of the record's
\* subtitle_tracks and that track has action "burn"; at most one track has
\* action "burn"; a track with action "burn" is the burned_subtitle (so the
\* burn selection is never marked "copy").
C15_BurnSelectionConsistent ==
    \A i \in 1..Len(media_files) :
        LET m == media_files[i]
            burn == { k \in 1..Len(m.subtitle_tracks) : m.subtitle_tracks[k].action = "burn" }
        IN /\ ~IsNone(m.burned_subtitle) =>
                  /\ Val(m.burned_subtitle) \in 1..Len(m.subtitle_tracks)
                  /\ m.subtitle_tracks[Val(m.burned_subtitle)].action = "burn"
           /\ Cardinality(burn) <= 1
           /\ \A k \in burn : m.burned_subtitle = Some(k)

\* C16: when a burn subtitle is selected and two-pass is enabled, converting
\* one file produces two encoder invocations, pass 1 then pass 2, and pass 2
\* starts only after pass 1 completed successfully.
C16_TwoPassOrdering ==
    (ret.fn = "convert_batch" /\ settings.use_two_pass) =>
        \A i \in 1..Len(media_files) :
            LET passes == { k \in 1..Len(trace) : trace[k].op = "ffmpeg" /\ trace[k].i = i }
            IN (~IsNone(media_files[i].burned_subtitle) /\ media_files[i].status = "Converted") =>
                   /\ Cardinality(passes) = 2
                   /\ \A k \in passes : trace[k].flag

\* C17: when cancellation is requested while a task runs, the run that then
\* ends is reported as cancelled, not as finished successfully and not as a
\* generic error.
C17_CancelReportsCancelled ==
    [][ (cancel_requested /\ task = "_run_combined_conversion" /\ task' # task) =>
            status_bar' \notin {"Task finished successfully.", "Error occurred"} ]_vars

C19_SplitPerClassifier ==
    ret.fn = "_run_combined_conversion" =>
        \A i \in 1..Len(media_files) :
            (\E k \in 1..Len(trace) : trace[k].op = "begin" /\ trace[k].i = i)
                <=> (\E k \in 1..Len(trace) :
                        trace[k].op = "queued" /\ trace[k].i = i /\ trace[k].flag)

\* C20: the transfer moves a file only if its status is a terminal success
\* status: a record that move_converted_files moved, or marked Transferred,
\* was Converted or Converted (Basic) when the call started.  The records
\* looked at are those Dashboard.start_transfer hands over: a .mp4 source or a
\* success status.
C20_OnlySuccessIsMoved ==
    [][ (transfers' # transfers) =>
            \A i \in 1..Len(media_files) :
                ( /\ \/ Suffix(media_files[i].source_path.name) = <<".mp4">>
                     \/ media_files[i].status \in {"Converted", "Converted (Basic)"}
                  /\ \/ \E k \in 1..Len(trace') : trace'[k].op = "move" /\ trace'[k].i = i
                     \/ /\ media_files'[i].status = "Transferred"
                        /\ media_files[i].status # "Transferred" )
                => media_files[i].status \in {"Converted", "Converted (Basic)"} ]_vars

\* C21: no transfer loses or overwrites a file: every file that exists
\* before a call of move_converted_files still exists after it, with its
\* content, at its destination or in its original place.
C21_TransferLosesNoFile ==
    [][ (transfers' # transfers) =>
            \A p \in DOMAIN fs : \E q \in DOMAIN fs' : fs'[q] = fs[p] ]_vars

\* C22: access to the conversion log is serialized while the pool runs: the
\* dictionary changes only in the main thread's collection step and never
\* while a dump is under way, the log file changes only under the lock, and a
\* log file that has just been written holds exactly the dictionary, with the
\* result of every future collected so far.
C22_LogIsSerializedSnapshot ==
    [][ /\ (conversion_log' # conversion_log) => (main_pc = "collect" /\ log_lock = "free")
        /\ (log_file_json' # log_file_json) => (main_pc = "dump" /\ log_lock = "main")
        /\ (main_pc = "dump" /\ log_file_json'.valid /\ log_file_json' # log_file_json) =>
              /\ log_file_json'.data = conversion_log
              /\ \A k \in collected :
                    /\ pool[k].input \in DOMAIN log_file_json'.data
                    /\ \E j \in collected :
                          /\ pool[j].input = pool[k].input
                          /\ log_file_json'.data[pool[k].input] =
                                 (IF pool[j].result = "None" THEN "error"
                                  ELSE IF pool[j].result = "dry_run" THEN "dry_run_success"
                                  ELSE "converted") ]_vars

\* a log file holding two collected results was saved while a worker is
\* still encoding
C22_Witness ==
    /\ log_file_json.valid
    /\ Cardinality(DOMAIN log_file_json.data) >= 1
    /\ Cardinality(collected) >= 1
    /\ main_pc = "collect"
    /\ Running # {}

\* C23: two workers that run at the same time never share the temp output
\* path or the final output path.
C23_WorkersUseDistinctPaths ==
    \A j, k \in Running :
        j # k =>
            /\ with_suffix(pool[j].input, TempSuffix) # with_suffix(pool[k].input, TempSuffix)
            /\ with_suffix(pool[j].input, <<".mp4">>) # with_suffix(pool[k].input, <<".mp4">>)

\* C24: with delete_source_on_success false, a run of the basic conversion
\* leaves every source file of the batch on disk with its content, whether
\* the file's conversion succeeded or failed.
C24_BasicKeepsSource ==
    [][ (ret'.fn = "run_batch_basic_conversion" /\ runs' # runs
            /\ ~settings.delete_source_on_success) =>
           \A i \in 1..Len(media_files) :
               Exists(fs, media_files[i].source_path) =>
                  /\ Exists(fs', media_files[i].source_path)
                  /\ fs'[media_files[i].source_path] = fs[media_files[i].source_path] ]_vars

\* the command of the last build, and the record it was built for
BuiltCommand == ret.fn = "_build_ffmpeg_command"

\* C25: every track gets the subtitle-relative stream index (the k-th
\* subtitle track gets k, from 0), and the command selects every subtitle
\* stream by that index: the soft-copy maps and the burn-in filter alike.
C25_SubtitleRelativeIndex ==
    BuiltCommand =>
        LET m == media_files[1]
            cmd == ret.value
        IN /\ \A k \in 1..Len(m.subtitle_tracks) : m.subtitle_tracks[k].ffmpeg_index = k - 1
           /\ \A k \in 1..Len(m.subtitle_tracks) :
                 (m.subtitle_tracks[k].action = "copy"
                     /\ m.subtitle_tracks[k].codec \in TEXT_SUB_CODECS) =>
                    <<"0:s:", IntStr(k - 1)>> \in OptionValues(cmd, <<"-map">>)
           /\ ~IsNone(m.burned_subtitle) =>
                 OptionValues(cmd, <<"-vf">>) =
                    { <<"subtitles=">> \o PathStr(m.source_path)
                         \o <<":stream_index=", IntStr(Val(m.burned_subtitle) - 1)>> }

\* C26: the command copies the audio when the codec is one of aac/ac3/eac3
\* with at least 6 channels and re-encodes it to the configured codec and
\* bitrate otherwise, as the preview announces.
C26_AudioCopyOrReencode ==
    BuiltCommand =>
        LET m == media_files[1]
            cmd == ret.value
            copies == TruthyStr(m.audio_codec) /\ Lower(Val(m.audio_codec)) \in compatible_audio
                         /\ m.audio_channels >= 6
        IN IF copies
           THEN OptionValues(cmd, <<"-c:a">>) = { <<"copy">> }
           ELSE /\ OptionValues(cmd, <<"-c:a">>) = { <<settings.audio_codec>> }
                /\ OptionValues(cmd, <<"-b:a">>) = { <<settings.audio_bitrate>> }

\* C27: without a burn-in subtitle the command copies the video stream when
\* its codec is h264 or hevc and re-encodes it when it is not; with a burn-in
\* subtitle it re-encodes and carries the subtitle filter.
C27_VideoCopyOrReencode ==
    BuiltCommand =>
        LET m == media_files[1]
            cmd == ret.value
            acceptable == TruthyStr(m.video_codec)
                             /\ \E c \in compatible_video : StrContains(Lower(Val(m.video_codec)), c)
        IN IF IsNone(m.burned_subtitle)
           THEN IF acceptable THEN OptionValues(cmd, <<"-c:v">>) = { <<"copy">> }
                ELSE <<"copy">> \notin OptionValues(cmd, <<"-c:v">>)
           ELSE /\ <<"copy">> \notin OptionValues(cmd, <<"-c:v">>)
                /\ OptionValues(cmd, <<"-c:v">>) # {}
                /\ OptionValues(cmd, <<"-vf">>) # {}

\* C28: the command maps for soft-copy exactly the tracks with action "copy"
\* and a text codec, in track order, with output subtitle indices 0, 1, ...
\* and codec mov_text; a PGS or VobSub track is never mapped.
C28_SoftCopyTextTracksOnly ==
    BuiltCommand =>
        LET m == media_files[1]
            cmd == ret.value
            sel == { k \in 1..Len(m.subtitle_tracks) :
                        m.subtitle_tracks[k].action = "copy"
                           /\ m.subtitle_tracks[k].codec \in {"subrip", "ass", "ssa", "mov_text"} }
            nth(j) == CHOOSE k \in sel : Cardinality({ i \in sel : i <= k }) = j
            maps == SelectSeq(cmd, LAMBDA a : a[1] = "0:s:")
            outs == SelectSeq(cmd, LAMBDA a : a[1] = "-c:s:")
        IN /\ Len(maps) = Cardinality(sel)
           /\ Len(outs) = Cardinality(sel)
           /\ \A j \in 1..Cardinality(sel) :
                 /\ maps[j] = <<"0:s:", IntStr(m.subtitle_tracks[nth(j)].ffmpeg_index)>>
                 /\ outs[j] = <<"-c:s:", IntStr(j - 1)>>
           /\ \A i \in 1..Len(cmd) :
                 /\ cmd[i][1] = "0:s:" => (i > 1 /\ cmd[i - 1] = <<"-map">>)
                 /\ cmd[i][1] = "-c:s:" => (i < Len(cmd) /\ cmd[i + 1] = <<"mov_text">>)

\* a command built for a file whose first track is PGS with action "copy"
\* and whose second track is a text track with action "copy"
C28_Witness ==
    /\ BuiltCommand
    /\ Len(media_files[1].subtitle_tracks) = 2
    /\ media_files[1].subtitle_tracks[1].codec = "hdmv_pgs_subtitle"
    /\ media_files[1].subtitle_tracks[1].action = "copy"
    /\ media_files[1].subtitle_tracks[2].codec = "subrip"
    /\ media_files[1].subtitle_tracks[2].action = "copy"
    /\ <<"0:s:", "1">> \in OptionValues(ret.value, <<"-map">>)

\* C29: scan_file never raises: a probe that is missing, exits non-zero or
\* gives unparseable output yields a record with status Error and a
\* non-empty error_message, a working probe a record with status Ready and
\* no error_message; scan_directory scans every file in both cases.
C29_ScanNeverRaises ==
    ret.fn = "scan_directory" =>
        /\ ret.value = "returned"
        /\ Len(media_files) = Cardinality(MkvFiles(fs))
        /\ Len(trace) = Len(media_files)
        /\ \A i \in 1..Len(media_files) :
              /\ media_files[i].source_path = trace[i].src
              /\ IF trace[i].flag
                 THEN media_files[i].status = "Ready" /\ IsNone(media_files[i].error_message)
                 ELSE /\ media_files[i].status = "Error"
                      /\ TruthyStr(media_files[i].error_message)

\* a scan of two files in which the probe of the first failed and the
\* second was scanned all the same
C29_Witness ==
    /\ ret.fn = "scan_directory"
    /\ Len(media_files) = 2
    /\ ~trace[1].flag /\ media_files[1].status = "Error"
    /\ trace[2].flag /\ media_files[2].status = "Ready"

\* C30: a transfer removes a directory only when it is the original folder
\* of a moved file, holds no entry and is not a configured source root: no
\* source root disappears, no removed directory held a file or a folder,
\* and every file is in a directory that exists.
C30_OnlyEmptyNonRootRemoved ==
    [][ (transfers' # transfers) =>
           /\ \A d \in dirs \ dirs' :
                 /\ \A k \in 1..Len(transfer_config.source_root_folders) :
                        transfer_config.source_root_folders[k] # d
                 /\ \E i \in 1..Len(media_files) : media_files[i].source_path.dir = d
                 /\ ~ \E p \in DOMAIN fs' : IsPrefix(d, p.dir)
                 /\ ~ \E c \in dirs' : c # d /\ IsPrefix(d, c)
           /\ \A k \in 1..Len(transfer_config.source_root_folders) :
                 transfer_config.source_root_folders[k] \in dirs =>
                    transfer_config.source_root_folders[k] \in dirs'
           /\ \A p \in DOMAIN fs' : p.dir \in dirs \cup dirs' => p.dir \in dirs' ]_vars

\* the folder of a transferred file was removed, while a source root that
\* the transfer emptied as well is still there
C30_Witness ==
    /\ \E k \in 1..Len(trace) : trace[k].op = "rmdir"
    /\ <<"E:", "Movies", "Film">> \notin dirs
    /\ <<"E:", "TV">> \in dirs
    /\ ~ \E p \in DOMAIN fs : p.dir = <<"E:", "TV">>
    /\ \A i \in 1..Len(media_files) : media_files[i].status = "Transferred"

====
